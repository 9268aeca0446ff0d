---------------------------- MODULE MCSelection ----------------------------
(* Selection on small instances: every expression is parsed, the pages of a *)
(* few and of the other views are walked.                                   *)
EXTENDS Selection, TLC

VARIABLE part \* "parse", or "walk"

-----------------------------------------------------------------------------
(* Expressions: one or two predicates in every spelling over a few keys and *)
(* values, and every short text, most of which the parser refuses.          *)

Tokens == <<"nl", "sp", "!", "(", ")", ",", "=", "K", "\\", "in", "k", "n", "notin", "type",
            "x", "nb">>
Words == {Tokens[i] : i \in DOMAIN Tokens}

Spelled == {<<"x">>, <<"n">>, <<"in">>, <<"\\", "n">>, <<"\\", "\\", "n">>, <<"\\", ",">>, <<"\\", "sp", "x">>}
Space == {<<>>, <<"sp">>}
Compared == {<<k>> \o s \o o \o v : k \in {"k", "type"}, s \in Space, o \in {<<"=">>, <<"!", "=">>}, v \in Spelled}
Lists ==
  {<<k, "sp", o>> \o s \o <<"(">> \o v \o <<",">> \o s \o w \o <<")">> :
     k \in {"K"}, o \in {"in", "notin"}, s \in Space, v \in Spelled, w \in Spelled \ {<<"in">>}}
  \cup {<<"k", "sp", "in", "(">> \o v \o <<")">> : v \in Spelled}
Single == {<<"k">>, <<"K">>, <<"!", "k">>, <<"type">>, <<"!", "type">>} \cup Compared \cup Lists
Few == {<<"k">>, <<"!", "k">>, <<"k", "=", "x">>, <<"type", "!", "=", "\\", "n">>,
        <<"K", "sp", "in", "(", "x", ")">>, <<"k", "sp", "notin", "(", "n", ",", "x", ")">>}
Expressions ==
  Single
  \cup {p \o <<"sp">> \o q : p \in Few, q \in Single}
  \cup {p \o <<"sp">> \o q \o <<"nl">> \o r : p \in Few, q \in Few, r \in Few}
  \cup {p \o q : p \in Few, q \in Few}
  \cup UNION {[1 .. n -> Words] : n \in 0 .. 3}

\* The expressions whose pages are walked.
Walked == {<<"type">>, <<"k", "=", "x">>, <<"K", "sp", "notin", "(", "x", ")">>}

\* The paged views that select nothing.
Views == {"members", "sessions", "topology", "listeners", "trust"}

Tagged == {"j", "k"}
Insertions == {<<>>, << <<"k", <<"x">>>> >>, << <<"k", <<"n">>>>, <<"k", <<"x">>>> >>,
               << <<"k", <<"n">>>>, <<"j", <<"x">>>> >>}

Held(type, labels) ==
  [removed |-> FALSE, stored |-> TRUE, type |-> type, uri |-> <<"x">>, labels |-> labels]

\* What an expression is evaluated against: every label of interest, or none.
Samples == <<Held(<<"n">>, "k" :> <<"x">>), Held(<<"nl">>, "k" :> <<"\\", "n">>), Held(<<"x">>, <<>>)>>

-----------------------------------------------------------------------------

MCInit ==
  /\ part \in {"parse", "walk"}
  /\ \E asked \in IF part = "parse" THEN Selecting \X Expressions
                   ELSE (Selecting \X Walked) \cup (Views \X {<<>>}) :
       kind = asked[1] /\ text = asked[2]
  /\ Begin(Samples)

MCNext == part = "walk" /\ SelectionNext /\ UNCHANGED part

MCSpec == MCInit /\ [][MCNext]_<<part, selectionVars>>

\* A caller that walks the pages of an expression gets what the expression says:
\* its canonical text says the same as it, and the pages are exact.
SelectionIsExact == IF part = "parse" THEN RoundTrips ELSE WalkIsExact
=============================================================================
