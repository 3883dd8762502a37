---------------------------- MODULE RenderService ----------------------------
(***************************************************************************)
(* What RendererProcess and RendererManager (crates/mocha_process) promise *)
(* the code that calls them: one call at a time, each answered once, for   *)
(* the document it was made for, by a renderer that may die at any moment  *)
(* and be replaced.  No frames, no pipes, no ids.                          *)
(***************************************************************************)
CONSTANTS Calls, NoCall, NoOutcome

VARIABLES
  pending,   \* the call being made, or NoCall
  outcome,   \* how the last call ended
  alive,     \* whether the renderer runs
  allowed,   \* the sandbox policy in force: may the renderer load documents?
  open       \* whether the calling process still holds the renderer

vars == <<pending, outcome, alive, allowed, open>>

Ended(c, r) == [call |-> c, result |-> r]

\* Rendering may fail, and a page may be too large to be sent; every other call
\* fails only when the renderer is gone.  Shutdown waits until it is.
MayFail(c) == c.op \in {"RenderDocument", "RenderHtml"} \/ ~alive

MaySucceed(c) ==
  CASE c.op = "RenderDocument" -> allowed
    [] c.op = "Shutdown" -> ~alive
    [] OTHER -> TRUE

\* A renderer that dies while it answers may leave a shortened page behind.
Results(c) ==
  {r \in {"ok", "shortened", "error"} :
     /\ r = "error" => MayFail(c)
     /\ r # "error" => MaySucceed(c)
     /\ r = "shortened" => ~alive /\ c.op \in {"RenderDocument", "RenderHtml"}}

Request ==
  /\ open /\ pending = NoCall
  /\ pending' \in Calls
  /\ UNCHANGED <<outcome, alive, allowed, open>>

Return ==
  /\ open /\ pending # NoCall
  /\ \E r \in Results(pending) :
       /\ outcome' = Ended(pending, r)
       /\ allowed' = IF pending.op = "SetSandboxPolicy" /\ r = "ok"
                       THEN pending.allow ELSE allowed
  /\ pending' = NoCall
  /\ UNCHANGED <<alive, open>>

Die ==
  /\ alive /\ alive' = FALSE
  /\ UNCHANGED <<pending, outcome, allowed, open>>

\* A new renderer starts without a policy.
Respawn ==
  /\ open /\ pending = NoCall
  /\ alive' = TRUE /\ allowed' = TRUE
  /\ UNCHANGED <<pending, outcome, open>>

\* The caller ends, and its call with it.
Close ==
  /\ open /\ open' = FALSE
  /\ pending' = NoCall
  /\ UNCHANGED <<outcome, alive, allowed>>

Init ==
  /\ pending = NoCall /\ outcome = NoOutcome
  /\ alive = TRUE /\ allowed = TRUE /\ open = TRUE

Next == Request \/ Return \/ Die \/ Respawn \/ Close

\* Every call returns, and a renderer that is told to shut down, or has lost
\* its owner, does not live on.
ToldToDie == ~open \/ (pending # NoCall /\ pending.op = "Shutdown")

Fairness == WF_vars(Return) /\ WF_vars(ToldToDie /\ Die)

Spec == Init /\ [][Next]_vars /\ Fairness
=============================================================================
