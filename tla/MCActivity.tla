----------------------------- MODULE MCActivity -----------------------------
(***************************************************************************)
(* Activity on small instances, of which a behaviour chooses one:          *)
(*   "files"       crashes, loads and writes that fail, at one instant;     *)
(*   "reverts"     the same while turns vanish from the history;            *)
(*   "messages"    reconnects and remarks over time, without a read;       *)
(*   "returns"     the watch goes and comes, with a read, over time;       *)
(*   "reconnects"  a read on a watch that is reconnected;                  *)
(*   "turns"       a second turn, writes that fail, a full checkpoint.     *)
(***************************************************************************)
EXTENDS Activity

VARIABLE focus

Chatter ==
  {[kind |-> "ask", id |-> "q", category |-> "userInput", blocking |-> TRUE],
   [kind |-> "resolved", id |-> "q"],
   [kind |-> "sleep", item |-> "sleep"],
   [kind |-> "wake", item |-> "sleep"],
   [kind |-> "status", active |-> TRUE, flags |-> {"waitingOnUserInput"}]}

Works == crashes' = 0 /\ ~broken' /\ ~error' /\ thread' # "doomed"

Kept == (watchers = 1 => watchers' = 1) /\ thread' # "closing"

Within ==
  CASE focus = "files" -> clock' = Second /\ connections' <= 1 /\ remarks' = 0 /\ reverted' = {}
    [] focus = "reverts" -> clock' = Second /\ connections' <= 1 /\ remarks' = 0 /\ Kept
    [] focus = "messages" -> /\ Works /\ Kept /\ reads' = 0 /\ reverted' = {}
                             /\ clock' <= Second + 1
    [] focus = "returns" -> /\ Works /\ reverted' = {} /\ remarks' = 0
                            /\ connections' <= 1 /\ (up # 0 => up' # 0)
                            /\ (ran'[1].start # 0 => connections' = 1)
                            /\ ran'[1].start \in {0, Second}
    [] focus = "reconnects" -> /\ Works /\ Kept /\ reverted' = {} /\ remarks' = 0
                               /\ clock' <= Second + 1
                               /\ (ran'[1].start # 0 => connections' > 0)
                               /\ ran'[1].start \in {0, Second}
    [] focus = "turns" -> /\ crashes' = 0 /\ ~broken' /\ Kept /\ reads' = 0 /\ remarks' = 0
                          /\ clock' <= Second + 1 /\ connections' <= 1

Focuses == {"files", "reverts", "messages", "returns", "reconnects", "turns"}

MCInit == Init /\ focus \in Focuses
MCNext ==
  /\ Next
  /\ Within
  /\ (focus # "turns" => \A t \in Turns : t > 1 => ran'[t].start = 0)
  /\ UNCHANGED focus
\* Of all the state, only the last error is never read.
View == <<clock, server, transport, entry, live, hot, durable, signal, saver, files, reading,
          history, focus>>

MCSpec == MCInit /\ [][MCNext]_<<vars, focus>>
=============================================================================
