------------------------------ MODULE MCKafka -------------------------------
(* Small instances of KafkaConsumer.                                        *)
EXTENDS KafkaConsumer, TLC

Plain  == [ZeroRequest EXCEPT !.Form = "full", !.EventName = "interactions",
                              !.RoutingKey = "r1"]
Api    == [Plain EXCEPT !.StreamTech = "API"]
Export == [Plain EXCEPT !.EventName = "calc_export", !.ExporterID = TRUE]
\* An exporter's request for another pipeline.
Foreign == [Plain EXCEPT !.ExporterID = TRUE]
Broken == [ZeroRequest EXCEPT !.Form = "badjson"]

KafkaPayloads == {Foreign, Plain, Export}
LivePayloads  == {Broken, Export, Api}
ApiPayloads   == {Api}
Total2 == [rk \in RoutingKey |-> 2]
Symmetry == Permutations(Proc)
MCText == STRING
=============================================================================
