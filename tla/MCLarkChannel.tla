--------------------------- MODULE MCLarkChannel ---------------------------
(* Bounds: any four of seven deliveries, and a pool of one lock for two    *)
(* chats.  Lane: a text and its redelivery, a slower media message of the  *)
(* same user and a text of another one, all for chat c1, and a callback of *)
(* that chat; in chat c2 a text, which evicts the lock of c1 whether it is *)
(* held, waited for or free (and has its own evicted), and a message       *)
(* without text.                                                           *)
EXTENDS LarkChannel

CONSTANTS e1, e2, e3, e4, e5, e6, e7, c1, c2, u1, u2, m1, m2, m3, m4, m5, m6

MCEvents == {e1, e2, e3, e4, e5, e6, e7}
MCChats == {c1, c2}
MCUsers == {u1, u2}
MCMsgs == {m1, m2, m3, m4, m5, m6}

Ev(m, c, u, k) == [msg |-> m, chat |-> c, user |-> u, kind |-> k]

Lane ==
  [e \in MCEvents |->
     CASE e \in {e1, e2} -> Ev(m1, c1, u1, "text")
       [] e = e3 -> Ev(m2, c1, u1, "media")
       [] e = e4 -> Ev(m3, c1, u2, "text")
       [] e = e5 -> Ev(m4, c1, u1, "callback")
       [] e = e6 -> Ev(m5, c2, u1, "text")
       [] e = e7 -> Ev(m6, c2, u1, "empty")]

(* State constraint.  It cuts deliveries only, which no fairness asks for: *)
(* what is left are the behaviours in which Feishu delivers no more.       *)
FourDeliveries == Cardinality({e \in Events : pc[e] # "idle"}) <= 4
=============================================================================
