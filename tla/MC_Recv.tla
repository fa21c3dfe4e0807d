------------------------------ MODULE MC_Recv ------------------------------
(* A small instance of MqttRecv for TLC. *)
EXTENDS MqttRecv, SequencesExt

MCAppFilters == {<<"/", "a", "/", "+">>, <<"/", "#">>}

\* Filters and names over one letter, up to six and four characters.
MCFilters == {f \in BoundedSeq({"/", "a", "+", "#"}, 6) : topic_is_valid(f)}
MCNames   == BoundedSeq({"/", "a", "b"}, 4)

\* QoS 0 and 1, with two and three bytes of length; a PUBLISH that is too
\* short for its topic, and a PINGRESP.
MCShapes ==
  LET name == <<"/", "a", "/", "b">>
  IN  {[hdr |-> 48, name |-> name, size |-> 128],
       [hdr |-> 50, name |-> name, size |-> 16384],
       [hdr |-> 48, name |-> name, size |-> 1],
       [hdr |-> 208, name |-> name, size |-> 0]}
=============================================================================
