------------------------------- MODULE Intake -------------------------------
(***************************************************************************)
(* The decisions Consumer.ProcessMessage takes before it runs a strategy.  *)
(* Both intakes (Redis stream and Kafka topic) call it.                    *)
(***************************************************************************)
EXTENDS Integers, Sequences, Controller

CONSTANTS EventTimeout,        \* cfg.EventTimeout in seconds, any sign
          messageDispatcherTimeoutSec,
          CalcExportProducer   \* TRUE iff calcExportProducer # nil (Kafka mode)

ASSUME IntakeAssumption ==
    /\ EventTimeout \in Int
    /\ messageDispatcherTimeoutSec \in Int
    /\ CalcExportProducer \in BOOLEAN

(* An input entry.  Form tells the entry without payload and body, the one  *)
(* that is not JSON, the one without eventData and the one that has all.    *)
(* Optional strings that are only tested for presence are Booleans, and     *)
(* OtherPipeline stands for job_id, is_live_dashboard, is_newsletter_report *)
(* and is_export_engagements.  Timestamped is request_timestamp > 0.        *)
Request == [Form : {"nopayload", "badjson", "nodata", "full"},
            EventName : Text, PageName : Text, Product : Text,
            PageAlertNotification : Text, DataSourceName : Text,
            StreamTech : Text, RoutingKey : Text,
            ExporterID : BOOLEAN, ExportXLSX : BOOLEAN,
            OtherPipeline : BOOLEAN, Timestamped : BOOLEAN,
            TopWidgets : Seq(Text), SelectedWidgets : Seq(Text)]

ZeroRequest == [Form |-> "nodata",
            EventName |-> "", PageName |-> "", Product |-> "",
            PageAlertNotification |-> "", DataSourceName |-> "",
            StreamTech |-> "", RoutingKey |-> "",
            ExporterID |-> FALSE, ExportXLSX |-> FALSE,
            OtherPipeline |-> FALSE, Timestamped |-> FALSE,
            TopWidgets |-> <<>>, SelectedWidgets |-> <<>>]

\* Run acks these without calling ProcessMessage.
Unreadable(r) == r.Form \in {"nopayload", "badjson"}

Ignored(r) == r.Form = "nodata" \/ r.EventName \notin AcceptedEventNames

IsExportRequest(r) ==
    /\ r.ExporterID /\ CalcExportProducer
    /\ \/ r.ExportXLSX
       \/ r.EventName \in {"staci.calc.export_request",
                           "fedi_listener_go_dispatcher", "calc_export"}

\* Conditional skip: another pipeline serves the request.
Skipped(r) == r.ExporterID \/ r.OtherPipeline

Stale(r, elapsed) == r.Timestamped /\ elapsed > EventTimeout

XlsxTimedOut(r, elapsed) ==
    /\ r.EventName \in {"fedi_listener_go_dispatcher", "staci.fedi.dispatcher"}
    /\ r.ExportXLSX /\ r.Timestamped
    /\ elapsed > messageDispatcherTimeoutSec

\* Mutant: a stale request is acknowledged like an ignored one.
Verdict_DropsStale(r, elapsed1, elapsed2) ==
    IF Ignored(r) \/ Skipped(r) \/ Stale(r, elapsed1) THEN "ack"
    ELSE IF XlsxTimedOut(r, elapsed2) THEN "export_xlsx_timeout"
    ELSE "run"

\* Mutant: the conditional skip comes before the export path.
Verdict_SkipsExport(r, elapsed1, elapsed2) ==
    IF Ignored(r) \/ Skipped(r) THEN "ack"
    ELSE IF Stale(r, elapsed1) THEN "stale_request"
    ELSE IF XlsxTimedOut(r, elapsed2) THEN "export_xlsx_timeout"
    ELSE "run"

\* What ProcessMessage decides; elapsed1 and elapsed2 are the two readings of
\* the clock, each minus the request's timestamp.
Verdict(r, elapsed1, elapsed2) ==
    IF Ignored(r) THEN "ack"
    ELSE IF IsExportRequest(r) THEN "export"
    ELSE IF Skipped(r) THEN "ack"
    ELSE IF Stale(r, elapsed1) THEN "stale_request"
    ELSE IF XlsxTimedOut(r, elapsed2) THEN "export_xlsx_timeout"
    ELSE "run"

\* selected_widgets of the top level are appended to those of eventData.
Merged(r) == [r EXCEPT !.SelectedWidgets = @ \o r.TopWidgets]

\* The request a strategy receives.
Enriched(r) == EventToPageEnrichment(r.EventName, Merged(r))

\* Status updates and the completion marker are for these requests only.
Buffered(r) == r.StreamTech = "API" /\ r.RoutingKey # ""
=============================================================================
