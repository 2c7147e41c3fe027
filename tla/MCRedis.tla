------------------------------ MODULE MCRedis -------------------------------
(* Small instances of RedisConsumer.                                        *)
EXTENDS RedisConsumer, TLC

\* A request without optional fields, for the output stream.
Plain == [ZeroRequest EXCEPT !.Form = "full", !.EventName = "interactions",
                             !.RoutingKey = "r1"]
Api    == [Plain EXCEPT !.StreamTech = "API"]
Sse    == [Plain EXCEPT !.StreamTech = "SSE"]
Broken == [ZeroRequest EXCEPT !.Form = "badjson"]
\* Timestamped, with widgets on both levels and a page to be enriched.
Dated  == [Plain EXCEPT !.Timestamped = TRUE, !.TopWidgets = <<"w1">>,
                        !.SelectedWidgets = <<"w2">>, !.PageName = "engagements",
                        !.EventName = "engagements_go_dispatcher"]
Xlsx   == [Plain EXCEPT !.Timestamped = TRUE, !.ExportXLSX = TRUE,
                        !.EventName = "fedi_listener_go_dispatcher"]
Other  == [Plain EXCEPT !.OtherPipeline = TRUE]

MixedPayloads == {Broken, Other, Dated, Xlsx, Sse, Plain}
FatePayloads  == {Other, Plain, Api}
LivePayloads  == {Plain, Api}
ApiPayloads   == {Api}
Total2 == [rk \in RoutingKey |-> 2]
Symmetry == Permutations(Proc)
MCText == STRING
=============================================================================
