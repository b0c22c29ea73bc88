----------------------------- MODULE MCDelivery -----------------------------
(* A phone that relays a text with an id and one without; a computer that  *)
(* relays a file event.                                                    *)
EXTENDS Delivery
CONSTANTS phone, pc, s1, s3, note, line, file
McDevice == [s \in Sids |-> IF s = s3 THEN pc ELSE phone]
McAuthor == [x \in Items |-> IF x = file THEN pc ELSE phone]
=============================================================================
