------------------------------- MODULE Events -------------------------------
(***************************************************************************)
(* internal/models: the event names the dispatcher accepts and the         *)
(* enrichment that derives page_name, product and data_source_name from    *)
(* the event name.  Strings that are only compared are kept as strings.    *)
(***************************************************************************)

CONSTANT Text   \* the values of Go's type string

AcceptedEventNames == {
    "fedi_listener_go_dispatcher", "interactions", "insights",
    "cdp_profile_interactions", "aggregate_dashboard_go_dispatcher",
    "custom_dashboard_go_dispatcher", "fedi_data", "alert_data",
    "chats_page_data", "chats_interactions", "survey_insights_go_dispatcher",
    "survey_individual_questions_insights_go_dispatcher",
    "benchmark_go_dispatcher", "fedi_private_data", "fedi_interactions",
    "fedi_private_interactions", "custom_projects", "explore_go_dispatcher",
    "engagements_go_dispatcher", "engagements_notes_go_dispatcher",
    "engagements_analytics_go_dispatcher",
    "engagements_single_interaction_dm_history", "single_post_go_dispatcher",
    "engagements_survey_feedback_go_dispatcher", "top_trends_go_dispatcher",
    "single_interaction_go_dispatcher", "csat_questions_responses_count",
    "csat_question_responses", "csat_user_responses", "calc_export",
    "unified_json", "qdtranscriber_go_dispatcher", "staci.fedi.dispatcher",
    "staci.calc.export_request", "staci.transcriber.dispatcher" }

\* The page names that engagements_go_dispatcher translates.
EngagementsPageNameMapping == [
    engagements              |-> "EngagementsProductPage",
    engagements_profile_data |-> "EngagementsProfileDataPage",
    engagements_logs_data    |-> "EngagementsSlasPage",
    engagements_notes        |-> "EngagementsNotesPage",
    engagements_analytics    |-> "EngagementAnalyticsPage",
    engagements_single_interaction_dm_history
                             |-> "EngagementsSingleInteractionDMHistoryPage",
    engagement_survey_feedback |-> "EngagementSurveyFeedbackPage" ]

\* The page names that unified_json translates.
UnifiedJSONPageMapping == [
    account_performance_page |-> "UnifiedAccountPerformancePage",
    account_content_page     |-> "UnifiedAccountContentPage",
    visual_content_page      |-> "UnifiedVisualContentPage",
    engagement_insights_page |-> "UnifiedEngagementInsightsPage",
    customer_care_page       |-> "UnifiedCustomerCarePerformancePage",
    posts_page               |-> "UnifiedPostPage",
    engagements_page         |-> "UnifiedPostPage",
    questions_page           |-> "UnifiedQuestionsPage",
    authors_page             |-> "UnifiedAuthorsPage",
    profile_page             |-> "UnifiedProfilePage",
    dynamic_widgets_page     |-> "UnifiedDynamicWidgetsPage",
    benchmark_page           |-> "UnifiedBenchmarkPage" ]

\* The events whose case of the switch assigns one page, whatever was sent.
FixedPage == [
    interactions              |-> "ResearchInteractionsPage",
    insights                  |-> "ResearchInsightsPage",
    chats_page_data           |-> "ResearchChatsPage",
    chats_interactions        |-> "ResearchChatsInteractionsPage",
    fedi_private_data         |-> "ResearchSingleDataSourceInsightsPage",
    fedi_private_interactions |-> "ResearchSingleDataSourceInteractionsPage",
    cdp_profile_interactions  |-> "CDPProfileInteractionsPage",
    survey_insights_go_dispatcher |-> "SurveyPage",
    survey_individual_questions_insights_go_dispatcher
                              |-> "SurveyIndividualQuestionsInsightsPage",
    engagements_notes_go_dispatcher     |-> "EngagementsNotesPage",
    engagements_analytics_go_dispatcher |-> "EngagementAnalyticsPage",
    engagements_single_interaction_dm_history
                              |-> "EngagementsSingleInteractionDMHistoryPage",
    engagements_survey_feedback_go_dispatcher
                              |-> "EngagementSurveyFeedbackPage",
    single_interaction_go_dispatcher |-> "SingleInteractionPage",
    csat_questions_responses_count
                              |-> "FulfillmentQuestionsResponsesCountPage",
    csat_question_responses   |-> "FulfillmentQuestionResponsesPage",
    csat_user_responses       |-> "FulfillmentUserResponsesPage" ]

\* Text holds the literals that the enrichment assigns.
ASSUME TextAssumption ==
    /\ {"", "Dashboards", "Fediprivate"} \subseteq Text
    /\ \A name \in DOMAIN EngagementsPageNameMapping :
            EngagementsPageNameMapping[name] \in Text
    /\ \A name \in DOMAIN UnifiedJSONPageMapping :
            UnifiedJSONPageMapping[name] \in Text
    /\ \A name \in DOMAIN FixedPage : FixedPage[name] \in Text

\* Mutant: the result of a missed lookup is used.
Mapped_NoOkCheck(table, name) ==
    IF name \in DOMAIN table THEN table[name] ELSE ""

\* A table lookup that leaves a name the table does not hold as it is.
Mapped(table, name) == IF name \in DOMAIN table THEN table[name] ELSE name

\* The page_name after enrichment.
EnrichedPage(eventName, page) ==
    IF eventName \in DOMAIN FixedPage THEN FixedPage[eventName]
    ELSE IF eventName = "engagements_go_dispatcher"
    THEN IF page = "" THEN "EngagementsProductPage"
                      ELSE Mapped(EngagementsPageNameMapping, page)
    ELSE IF eventName = "unified_json"
    THEN Mapped(UnifiedJSONPageMapping, page)
    ELSE page

\* eventData after the switch of EventToPageEnrichment.
EventToPageEnrichment(eventName, eventData) ==
    [eventData EXCEPT
        !.PageName = EnrichedPage(eventName, @),
        !.Product  = IF eventName \in {"aggregate_dashboard_go_dispatcher",
                                       "custom_dashboard_go_dispatcher"}
                     THEN "Dashboards" ELSE @,
        !.DataSourceName = IF eventName \in {"fedi_private_data",
                                             "fedi_private_interactions"}
                           THEN "Fediprivate" ELSE @]
=============================================================================
