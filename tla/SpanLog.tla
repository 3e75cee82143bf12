------------------------------- MODULE SpanLog ------------------------------
(***************************************************************************)
(* What the span ring promises, with slots, head and index left out: the   *)
(* newest Cap spans in order of arrival, where a repeated agent span takes *)
(* the place of the copy already retained.                                 *)
(***************************************************************************)
EXTENDS Naturals, Sequences

CONSTANTS Cap, Spans, Conns
CONSTANT SameAgentSpan(_, _)  \* both are receipts of one agent identity

VARIABLE log

Drop(q) == IF Len(q) = Cap THEN Tail(q) ELSE q

LogInit == log = <<>>

\* A span that no retained copy answers to arrives at the end.
Arrive(span) ==
  /\ \A i \in DOMAIN log : ~SameAgentSpan(log[i], span)
  /\ log' = Append(Drop(log), span)

\* A repeated agent span replaces the one copy, where it stands.
Replace(span) ==
  \E i \in DOMAIN log :
    /\ SameAgentSpan(log[i], span)
    /\ log' = [log EXCEPT ![i] = span]

\* The spans of a connection go, the others keep their order.
Forget(conn) ==
  LET stays == {i \in DOMAIN log : log[i].conn # conn}
  IN  \E n \in 0..Len(log) : \E place \in [1..n -> stays] :
        /\ \A l, m \in 1..n : l < m => place[l] < place[m]
        /\ \A i \in stays : \E m \in 1..n : place[m] = i
        /\ log' = [m \in 1..n |-> log[place[m]]]

Empty == log' = <<>>

LogNext ==
  \/ \E span \in Spans : Arrive(span) \/ Replace(span)
  \/ \E conn \in Conns : Forget(conn)
  \/ Empty

LogSpec == LogInit /\ [][LogNext]_log
=============================================================================
