----------------------------- MODULE RouteOrder -----------------------------
(***************************************************************************)
(* order_for_fast_fallback of connection/planning.rs: how                  *)
(* DefaultRoutePlanner orders the resolved addresses of a plan.  An answer *)
(* of the resolver is the sequence of its addresses' families; an address  *)
(* is its family and its place in the answer.                              *)
(***************************************************************************)
EXTENDS Naturals, Sequences, SequencesExt

Family == {"Ipv4", "Ipv6"}
OtherFamily(f) == IF f = "Ipv4" THEN "Ipv6" ELSE "Ipv4"

\* The addresses of one family, in the order of the answer.
Of(f, answer) ==
  SelectSeq([i \in DOMAIN answer |-> [family |-> answer[i], place |-> i]],
            LAMBDA a : a.family = f)

\* The state of the loop: the queues by_family, next_family and ordered.
Start(answer) ==
  [byFamily |-> [f \in Family |-> Of(f, answer)],
   nextFamily |-> IF Contains(answer, "Ipv6") THEN "Ipv6" ELSE "Ipv4",
   ordered |-> <<>>]

\* primary.or_else(secondary)
Choice(st) ==
  LET turn == st.nextFamily IN
  {f \in (IF st.byFamily[turn] # <<>> THEN {turn} ELSE {OtherFamily(turn)}) :
     st.byFamily[f] # <<>>}

\* One iteration; none is left to choose when the loop breaks.
Place(st) ==
  IF Choice(st) = {} THEN st
  ELSE LET f == CHOOSE f \in Choice(st) : TRUE IN
       [byFamily |-> [st.byFamily EXCEPT ![f] = Tail(@)],
        nextFamily |-> OtherFamily(st.nextFamily),
        ordered |-> Append(st.ordered, Head(st.byFamily[f]))]

\* An iteration places an address or is the last one.
OrderForFastFallback(answer) ==
  LET after[n \in 0..Len(answer)] ==
        IF n = 0 THEN Start(answer) ELSE Place(after[n - 1])
  IN  after[Len(answer)].ordered
=============================================================================
