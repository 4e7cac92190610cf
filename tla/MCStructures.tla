----------------------------- MODULE MCStructures -----------------------------
(***************************************************************************)
(* The four data structures the library and the shell stand on, in one     *)
(* run: the receive ring, the glue list, the serialisation buffer and the  *)
(* string functions.  They share nothing: each behaviour is about one of   *)
(* them (part), and the others stay as they were created.                  *)
(*                                                                         *)
(* Four nodes of three priorities, two of them as urgent as each other; a  *)
(* buffer of one or three bytes, written in pieces of none to three; and   *)
(* every text of up to five characters of an alphabet of two or three.     *)
(***************************************************************************)
EXTENDS MCByteCircularBuffer, Structures, SequencesExt

VARIABLE part

MCNode == {"a", "b", "c", "d"}
MCKey == [n \in MCNode |-> CASE n = "a" -> 1 [] n = "d" -> 3 [] OTHER -> 2]
MCBlank == <<"blank", 0>>

UpTo(n, chars) == UNION {[1..k -> chars] : k \in 0..n}
MCLineText == UpTo(4, {"a", " ", "t"})
MCSubject == UpTo(5, {"a", "b"})
MCPage == UpTo(5, {"a", "b", "n"})
MCReport == UpTo(5, {"1", "a", " "})
MCSub == {<<"a">>, <<"a", "b">>, <<"a", "a">>}
MCNew == {<<>>, <<"b">>, <<"a">>}
MCPattern == {<<"a">>, <<"a", "b">>}

MCInit == /\ part \in {"ring", "list", "buffer", "strings"}
          /\ IF part = "ring" THEN Init
             ELSE /\ buffer = [i \in Slots |-> 0]
                  /\ front = 0 /\ rear = 0 /\ current_size = 0
                  /\ reply = Reply("none", 0, 0, <<>>)
          /\ Glue!Init /\ Str!Init
          /\ IF part = "buffer" THEN Ser!Init ELSE size = 1 /\ Ser!Init

MCNext ==
  /\ UNCHANGED part
  /\ \/ part = "ring" /\ RingStep
     \/ part = "list" /\ ListStep
     \/ part = "buffer" /\ BufferStep
     \/ part = "strings" /\ StringStep

MCSpec == MCInit /\ [][MCNext]_<<part, vars, glue, ser, str>>

=============================================================================
