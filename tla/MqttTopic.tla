----------------------------- MODULE MqttTopic -----------------------------
(***************************************************************************)
(* Topic filters and topic names of the MQTT client                        *)
(* (core/aiot_mqtt_api.c).  A topic is a sequence of characters: "/",      *)
(* the wildcards "+" and "#", and letters.  Indices count from 1 where the *)
(* code counts from 0.                                                     *)
(***************************************************************************)
EXTENDS Integers, Sequences, FiniteSets

\* A filter starts with a slash; "+" fills a level, "#" the last one.
topic_is_valid(topic) ==
  /\ topic # <<>> /\ topic[1] = "/"
  /\ \A i \in DOMAIN topic :
       /\ topic[i] = "+" => topic[i - 1] = "/" /\ (i < Len(topic) => topic[i + 1] = "/")
       /\ topic[i] = "#" => topic[i - 1] = "/" /\ i = Len(topic)

\* The index of the next slash of name at or after c, or the end of name.
NextSlash(name, c) ==
  LET ends == {k \in c .. Len(name) + 1 : k = Len(name) + 1 \/ name[k] = "/"}
  IN  CHOOSE k \in ends : \A j \in ends : k <= j

topic_compare_PlusGreedy(topic, name) ==
  LET compare[i \in 1 .. Len(topic) + 1] ==
        {c \in 1 .. Len(name) + 1 :
           IF i > Len(topic) THEN c > Len(name)
           ELSE IF c > Len(name) THEN SubSeq(topic, i, Len(topic)) = <<"/", "#">>
           ELSE CASE topic[i] = "#" -> TRUE
                  [] topic[i] = "+" -> i = Len(topic) \/ NextSlash(name, c) \in compare[i + 1]
                  [] OTHER -> topic[i] = name[c] /\ c + 1 \in compare[i + 1]}
  IN  1 \in compare[1]

\* The loop of _core_mqtt_topic_compare: compare[i] holds the values of
\* cmp_idx from which it goes on from idx = i to a match.
topic_compare(topic, name) ==
  LET compare[i \in 1 .. Len(topic) + 1] ==
        {c \in 1 .. Len(name) + 1 :
           IF i > Len(topic) THEN c > Len(name)
           ELSE IF c > Len(name) THEN SubSeq(topic, i, Len(topic)) = <<"/", "#">>
           ELSE CASE topic[i] = "#" -> TRUE
                  [] topic[i] = "+" ->
                       LET e == NextSlash(name, c)
                       IN  (e <= Len(name) => i < Len(topic)) /\ e \in compare[i + 1]
                  [] OTHER -> topic[i] = name[c] /\ c + 1 \in compare[i + 1]}
  IN  1 \in compare[1]

-----------------------------------------------------------------------------
(* The rule of MQTT (section 4.7), level by level: what the code is for. *)

\* The levels of a topic are what its slashes separate.
Cuts(t)     == {0, Len(t) + 1} \cup {i \in DOMAIN t : t[i] = "/"}
Cut(t, k)   == CHOOSE c \in Cuts(t) : Cardinality({d \in Cuts(t) : d < c}) = k - 1
Levels(t)   == Cardinality(Cuts(t)) - 1
Level(t, k) == SubSeq(t, Cut(t, k) + 1, Cut(t, k + 1) - 1)

Matches(topic, name) ==
  LET n       == Levels(topic)
      open    == Level(topic, n) = <<"#">>
      same(k) == Level(topic, k) \in {<<"+">>, Level(name, k)}
  IN  IF open THEN Levels(name) >= n - 1 /\ \A k \in 1 .. n - 1 : same(k)
              ELSE Levels(name) = n /\ \A k \in 1 .. n : same(k)

\* The one case in which the code is stricter: a wildcard against an empty
\* last level ("/a/+" or "/a/#" against "/a/").
EmptyLastLevel(topic, name) ==
  LET n == Levels(name)
  IN  /\ Level(name, n) = <<>>
      /\ n <= Levels(topic) /\ Level(topic, n) \in {<<"+">>, <<"#">>}
=============================================================================
