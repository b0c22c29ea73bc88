------------------------------- MODULE ListOps -------------------------------
(***************************************************************************)
(* The list operations of the session tracker.  The Python code keeps the  *)
(* join order of a room in a list and updates it with two idioms:          *)
(*                                                                         *)
(*     [x for x in s if <x passes a test>]        a list comprehension     *)
(*     if x not in s: s.append(x)                 an append without repeat *)
(*                                                                         *)
(* A recursive function is used for the first one, rather than SelectSeq,  *)
(* so that theorems about it can be proved (module RoomsProofs).           *)
(***************************************************************************)
EXTENDS Integers, Sequences, Functions

\* The comprehensions of the prefixes of s: KeepUpTo(s, P)[i] is that of its
\* first i elements.
KeepUpTo(s, P) ==
  LET f[i \in 0..Len(s)] ==
        IF i = 0 THEN << >>
        ELSE IF s[i] \in P THEN Append(f[i - 1], s[i])
        ELSE f[i - 1]
  IN  f

\* [x for x in s if x in P]
Keep(s, P) == KeepUpTo(s, P)[Len(s)]

\* if x not in s: s.append(x)
AppendEntry(s, x) ==            \* mutant: the list is given an entry, not the id
  IF x \in Range(s) THEN s ELSE Append(s, <<x>>)
AppendNew(s, x) == IF x \in Range(s) THEN s ELSE Append(s, x)
==============================================================================
