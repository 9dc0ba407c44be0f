------------------------- MODULE MCReliableDelivery -------------------------
(* Instances of ReliableDelivery for TLC. *)
EXTENDS ReliableDelivery

(* Two packets of one message (chunks), with different texts. *)
TwoTexts == {[id |-> "a", seq |-> 1, text |-> "x"],
             [id |-> "a", seq |-> 2, text |-> "y"]}

(* Two messages with the same text. *)
SameText == {[id |-> "a", seq |-> 1, text |-> "x"],
             [id |-> "b", seq |-> 1, text |-> "x"]}

(* A packet whose ACK is not recognised (sequence 0) and a normal one. *)
WithSeqZero == {[id |-> "a", seq |-> 0, text |-> "x"],
                [id |-> "b", seq |-> 1, text |-> "y"]}
=============================================================================
