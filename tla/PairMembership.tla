---------------------------- MODULE PairMembership ----------------------------
(***************************************************************************)
(* What the OracleManager relies on when it calls a coin pair, or anybody  *)
(* closes its round: how subscriptions and seats may change.  Who is       *)
(* evicted, seated or removed depends on stakes, points and missed rounds; *)
(* RoundManager has that, and RoundManager_proofs shows that it keeps      *)
(* this contract.                                                          *)
(*                                                                         *)
(* m is a membership: the subscribed owners and the seated ones.           *)
(***************************************************************************)
EXTENDS FiniteSets

AtMostOneOf(S) == {{}} \cup {{o} : o \in S}

Membership(subscribers, seats) == [subscribed |-> subscribers, seated |-> seats]

NoMembers == Membership({}, {})

\* subscribe: somebody may be evicted from the list, which costs no seat.
AfterSubscribe(m, o) ==
    UNION {{Membership((m.subscribed \ evicted) \cup {o}, m.seated \cup seat) :
              evicted \in AtMostOneOf(m.subscribed)} : seat \in AtMostOneOf({o})}

\* unsubscribe: the owner keeps its seat until the round closes.
AfterUnsubscribe(m, o) == Membership(m.subscribed \ {o}, m.seated)

\* onWithdraw of an owner that loses its seat: one of those that wait takes it,
\* and the owner may lose its place in the list too.
AfterSeatLost(m, o) ==
    UNION {{Membership(m.subscribed \ gone, (m.seated \ {o}) \cup next) :
              next \in AtMostOneOf(m.subscribed \ m.seated)} : gone \in AtMostOneOf({o})}

\* onWithdraw: an owner without a seat has its place to lose.
AfterWithdraw(m, o) ==
    IF o \in m.seated THEN {m} \cup AfterSeatLost(m, o)
                      ELSE {m, AfterUnsubscribe(m, o)}

\* switchRound: silent owners that were seated are unsubscribed, and the next
\* seats are for subscribers.
AfterSwitchRound(m) ==
    UNION {{Membership(m.subscribed \ silent, seats) : seats \in SUBSET (m.subscribed \ silent)} :
              silent \in SUBSET m.seated}
=============================================================================
