---------------------------- MODULE EventsProofs ----------------------------
(***************************************************************************)
(* Facts about the tables of internal/models and the strategy registry     *)
(* that the proofs about routing and about dead letters rest on.           *)
(***************************************************************************)
EXTENDS Controller, TLAPS

(* What the engagements table returns is not one of its own keys, nor the  *)
(* empty page: a second lookup translates nothing (events.go:44).          *)
LEMMA EngagementsValues ==
    \A name \in DOMAIN EngagementsPageNameMapping :
        /\ EngagementsPageNameMapping[name] # ""
        /\ EngagementsPageNameMapping[name]
               \notin DOMAIN EngagementsPageNameMapping
  <1> DEFINE M == EngagementsPageNameMapping
  <1>1. DOMAIN M = {"engagements", "engagements_profile_data",
            "engagements_logs_data", "engagements_notes",
            "engagements_analytics", "engagement_survey_feedback",
            "engagements_single_interaction_dm_history"}
    BY DEF EngagementsPageNameMapping
  <1>2. /\ M["engagements"] = "EngagementsProductPage"
        /\ M["engagements_profile_data"] = "EngagementsProfileDataPage"
        /\ M["engagements_logs_data"] = "EngagementsSlasPage"
        /\ M["engagements_notes"] = "EngagementsNotesPage"
        /\ M["engagements_analytics"] = "EngagementAnalyticsPage"
        /\ M["engagement_survey_feedback"] = "EngagementSurveyFeedbackPage"
        /\ M["engagements_single_interaction_dm_history"] =
               "EngagementsSingleInteractionDMHistoryPage"
    BY DEF EngagementsPageNameMapping
  <1> QED
    BY <1>1, <1>2

(* What the unified_json table returns is not one of its own keys, and is  *)
(* a page with a registered strategy (events.go:55, stub.go:46).           *)
LEMMA UnifiedValues ==
    \A name \in DOMAIN UnifiedJSONPageMapping :
        /\ UnifiedJSONPageMapping[name] \notin DOMAIN UnifiedJSONPageMapping
        /\ UnifiedJSONPageMapping[name] \in StubPages
  <1> DEFINE M == UnifiedJSONPageMapping
  <1>1. DOMAIN M = {"account_performance_page", "account_content_page",
            "visual_content_page", "engagement_insights_page",
            "customer_care_page", "posts_page", "engagements_page",
            "questions_page", "authors_page", "profile_page",
            "dynamic_widgets_page", "benchmark_page"}
    BY DEF UnifiedJSONPageMapping
  <1>2. /\ M["account_performance_page"] = "UnifiedAccountPerformancePage"
        /\ M["account_content_page"] = "UnifiedAccountContentPage"
        /\ M["visual_content_page"] = "UnifiedVisualContentPage"
        /\ M["engagement_insights_page"] = "UnifiedEngagementInsightsPage"
        /\ M["customer_care_page"] = "UnifiedCustomerCarePerformancePage"
        /\ M["posts_page"] = "UnifiedPostPage"
        /\ M["engagements_page"] = "UnifiedPostPage"
        /\ M["questions_page"] = "UnifiedQuestionsPage"
        /\ M["authors_page"] = "UnifiedAuthorsPage"
        /\ M["profile_page"] = "UnifiedProfilePage"
        /\ M["dynamic_widgets_page"] = "UnifiedDynamicWidgetsPage"
        /\ M["benchmark_page"] = "UnifiedBenchmarkPage"
    BY DEF UnifiedJSONPageMapping
  <1>3. \A name \in DOMAIN M : M[name] \notin DOMAIN M
    BY <1>1, <1>2
  <1>4. \A name \in DOMAIN M : M[name] \in StubPages
    BY <1>1, <1>2 DEF StubPages
  <1> QED
    BY <1>3, <1>4

(* The page that an event fixes has a registered strategy (events.go:75,   *)
(* stub.go:46).                                                            *)
LEMMA FixedPageRegistered ==
    \A e \in DOMAIN FixedPage : FixedPage[e] \in StubPages
  <1> DEFINE M == FixedPage
  <1>1. DOMAIN M = {"interactions", "insights", "chats_page_data",
            "chats_interactions", "fedi_private_data",
            "fedi_private_interactions", "cdp_profile_interactions",
            "survey_insights_go_dispatcher",
            "survey_individual_questions_insights_go_dispatcher",
            "engagements_notes_go_dispatcher",
            "engagements_analytics_go_dispatcher",
            "engagements_single_interaction_dm_history",
            "engagements_survey_feedback_go_dispatcher",
            "single_interaction_go_dispatcher",
            "csat_questions_responses_count", "csat_question_responses",
            "csat_user_responses"}
    BY DEF FixedPage
  <1>2. /\ M["interactions"] \in StubPages
        /\ M["insights"] \in StubPages
        /\ M["chats_page_data"] \in StubPages
        /\ M["chats_interactions"] \in StubPages
        /\ M["fedi_private_data"] \in StubPages
        /\ M["fedi_private_interactions"] \in StubPages
        /\ M["cdp_profile_interactions"] \in StubPages
        /\ M["survey_insights_go_dispatcher"] \in StubPages
        /\ M["survey_individual_questions_insights_go_dispatcher"] \in StubPages
        /\ M["engagements_notes_go_dispatcher"] \in StubPages
        /\ M["engagements_analytics_go_dispatcher"] \in StubPages
        /\ M["engagements_single_interaction_dm_history"] \in StubPages
        /\ M["engagements_survey_feedback_go_dispatcher"] \in StubPages
        /\ M["single_interaction_go_dispatcher"] \in StubPages
        /\ M["csat_questions_responses_count"] \in StubPages
        /\ M["csat_question_responses"] \in StubPages
        /\ M["csat_user_responses"] \in StubPages
    BY DEF FixedPage, StubPages
  <1> QED
    BY <1>1, <1>2

(* Enriching a page that was enriched yields it again (events.go:71).      *)
LEMMA EnrichedPageStable ==
    ASSUME NEW e, NEW page
    PROVE  EnrichedPage(e, EnrichedPage(e, page)) = EnrichedPage(e, page)
  <1>1. CASE e \in DOMAIN FixedPage
    BY <1>1 DEF EnrichedPage
  <1>2. CASE e \notin DOMAIN FixedPage /\ e = "engagements_go_dispatcher"
    <2>1. "EngagementsProductPage" \notin DOMAIN EngagementsPageNameMapping
      BY DEF EngagementsPageNameMapping
    <2> QED
      BY <1>2, <2>1, EngagementsValues DEF EnrichedPage, Mapped
  <1>3. CASE e \notin DOMAIN FixedPage /\ e = "unified_json"
    BY <1>3, UnifiedValues DEF EnrichedPage, Mapped
  <1> QED
    BY <1>1, <1>2, <1>3 DEF EnrichedPage

(* A page registered alone is found whatever the product and the alert, by *)
(* the fallback of Registry.Get (controller.go:43).                        *)
LEMMA StubPageFound ==
    ASSUME NEW product, NEW page \in StubPages, NEW alert
    PROVE  Get(product, page, alert)
  BY DEF Get, RegisterStubStrategies, strategyKey

(* A strategy's message is never the placeholder (stub.go:15).             *)
LEMMA StubIsNoPlaceholder ==
    ASSUME NEW params
    PROVE  CallPageData(params) # Placeholder
  <1>1. CallPageData(params).EventName # Placeholder.EventName
    BY DEF CallPageData, Placeholder
  <1> QED
    BY <1>1
=============================================================================
