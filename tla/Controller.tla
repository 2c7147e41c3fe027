----------------------------- MODULE Controller -----------------------------
(***************************************************************************)
(* internal/controller and internal/strategies: how a request finds the    *)
(* strategy that answers it, and the one message that strategy produces.   *)
(* A strategy key is the tuple of the parts the code joins with "|"; page, *)
(* product and alert names are assumed to hold no "|" of their own.        *)
(* Every registered strategy is the same stub, so the registry is the set  *)
(* of its keys and "a strategy is found" is membership.                    *)
(***************************************************************************)
EXTENDS Events

strategyKey(product, pageName, pageAlertNotification) ==
    IF pageAlertNotification # ""
    THEN <<product, pageName, pageAlertNotification>>
    ELSE IF product # "" THEN <<product, pageName>> ELSE <<pageName>>

StubPages == {
    "CustomDashboard", "AccountPage", "EngagementsPage", "CustomerCarePage",
    "PostsPage", "CommentsMentionsPage", "AuthorsPage", "QuestionsPage",
    "ResearchInteractionsPage", "ResearchInsightsPage", "ResearchChatsPage",
    "ResearchChatsInteractionsPage", "ResearchSingleDataSourceInsightsPage",
    "ResearchSingleDataSourceInteractionsPage", "CDPProfileInteractionsPage",
    "SurveyPage", "SurveyIndividualQuestionsInsightsPage",
    "EngagementAnalyticsPage", "EngagementsNotesPage",
    "EngagementsSingleInteractionDMHistoryPage",
    "EngagementSurveyFeedbackPage", "SingleInteractionPage",
    "FulfillmentQuestionsResponsesCountPage",
    "FulfillmentQuestionResponsesPage", "FulfillmentUserResponsesPage",
    "UnifiedAccountPerformancePage", "UnifiedAccountContentPage",
    "UnifiedVisualContentPage", "UnifiedEngagementInsightsPage",
    "UnifiedCustomerCarePerformancePage", "UnifiedPostPage",
    "UnifiedQuestionsPage", "UnifiedAuthorsPage", "UnifiedProfilePage",
    "UnifiedDynamicWidgetsPage", "UnifiedBenchmarkPage",
    "EngagementsProductPage", "EngagementAnalyticsPageExport", "Default" }

DashboardPages == {
    "CustomDashboard", "AccountPage", "EngagementsPage", "CustomerCarePage",
    "PostsPage", "CommentsMentionsPage", "AuthorsPage", "QuestionsPage" }

AlertNotifications == {
    "TrendingAlert", "NegativePostsAlert", "NewPostAlert",
    "HighVolumeReachAlert", "ViralTweetAlert", "InfluencerAlert",
    "VerifiedAuthorAlert", "HourlyAlertNotification" }

PublicApiPages == {
    "Account", "Engagements", "CustomerCare", "Posts", "Analytics", "Chats",
    "Interactions", "SingleSource", "SocialMedia", "EngagementAnalytics" }

\* The keys of the registry after RegisterStubStrategies.
RegisterStubStrategies ==
    {strategyKey("", p, "") : p \in StubPages}
    \cup {strategyKey("Dashboards", p, "") : p \in DashboardPages}
    \cup {strategyKey("Alerts", a, "") : a \in AlertNotifications}
    \cup {strategyKey("PUBLIC_API", p, "") : p \in PublicApiPages}

\* Mutant: the exact key only.
Get_ExactOnly(product, pageName, pageAlertNotification) ==
    strategyKey(product, pageName, pageAlertNotification)
        \in RegisterStubStrategies

\* Registry.Get(...) # nil: the exact key, or the page name alone.
Get(product, pageName, pageAlertNotification) ==
    \/ strategyKey(product, pageName, pageAlertNotification)
           \in RegisterStubStrategies
    \/ strategyKey("", pageName, "") \in RegisterStubStrategies

\* The page name Controller.Run looks up.
LookupPage(params) ==
    LET page == IF params.Product = "Alerts"
                   /\ params.PageAlertNotification # ""
                THEN params.PageAlertNotification ELSE params.PageName
    IN  IF page = "" THEN "Default" ELSE page

HasStrategy(params) ==
    Get(params.Product, LookupPage(params), params.PageAlertNotification)

\* Text holds the literals that message names are made of.
ASSUME NamesAssumption ==
    {"__stub", "Stub__Widget", "Dispatcher__Placeholder"} \subseteq Text

\* The message StubStrategy.CallPageData pushes; its name is page ++ "__stub".
CallPageData(params) ==
    [EventName  |-> IF params.PageName # "" THEN <<params.PageName, "__stub">>
                                            ELSE <<"Stub__Widget">>,
     StreamTech |-> params.StreamTech]

\* The message pushed when no strategy is found: it carries no StreamTech.
Placeholder == [EventName |-> <<"Dispatcher__Placeholder">>, StreamTech |-> ""]

\* The message Controller.Run tries to push on the sender queue.
OutgoingMessage(params) ==
    IF HasStrategy(params) THEN CallPageData(params) ELSE Placeholder
=============================================================================
