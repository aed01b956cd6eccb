----------------------------- MODULE MCSession -----------------------------
(***************************************************************************)
(* Small instances of Prompts and Watches on one Link, and of the page     *)
(* that shows a conversation.  Prompts and Watches share only the link,    *)
(* which neither restricts, and the page shares nothing with them, so a    *)
(* behaviour of all is a behaviour of each: a run takes one of them in     *)
(* every behaviour, and the states add up instead of multiplying.          *)
(***************************************************************************)
EXTENDS Prompts, Watches, PageLanes

VARIABLE focus  \* the component this behaviour is about

vars == <<linkVars, questionVars, subscriptionVars, lanesVars, focus>>

Init ==
  /\ PromptsInit
  /\ WatchesInit
  /\ LanesInit
  /\ focus \in {"prompts", "watches", "page"}
  /\ focus # "page" => page.hidden

Next ==
  /\ UNCHANGED focus
  /\ \/ focus = "prompts" /\ PromptsNext /\ UNCHANGED <<subscriptionVars, lanesVars>>
     \/ focus = "watches" /\ WatchesNext /\ UNCHANGED <<questionVars, lanesVars>>
     \/ focus = "page" /\ LanesNext /\ UNCHANGED <<linkVars, questionVars, subscriptionVars>>

Spec == Init /\ [][Next]_vars

(***************************************************************************)
(* What the states are told apart by.  Of the revisions the model only     *)
(* ever compares a stream's with the present one, and every bump yields a  *)
(* new one.  An answered or retired offer that nobody holds is never read  *)
(* again, but for having been answered twice; nor is a question that is    *)
(* still in the hand of the reader of a connection that is gone.           *)
(***************************************************************************)
Late(m) == IF m \in {"ask", "ask later"} THEN "none" ELSE m

Live == {q.token : q \in request} \cup UNION {{h.token : h \in held[a]} : a \in Actors}

View ==
  IF focus = "page" THEN lanesVars
  ELSE IF focus = "watches" THEN <<linkVars, subscriptionVars>>
  ELSE <<linkVars, [g \in 1..MaxGenerations |-> IF g = connection THEN hand[g] ELSE Late(hand[g])],
         offers, request, notices, held, hints,
         armed \cap {q.token : q \in request},
         {n \in Live : written[n] > 0}, {n \in Tokens : written[n] > 1},
         pendingRevisions > pendingReset,
         [b \in Browsers |-> IF stream[b].on
                             THEN [stream[b] EXCEPT !.previous = (@ = PendingRevision)]
                             ELSE stream[b]]>>
=============================================================================
