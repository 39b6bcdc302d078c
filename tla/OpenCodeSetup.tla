----------------------------- MODULE OpenCodeSetup -----------------------------
(***************************************************************************)
(* One startup setup of an OpenCode Agent: the coordinator's goroutine,    *)
(* its map entry and its channels, the reporter plugin in the pane, and    *)
(* who waits for the outcome or cancels it.  AgentLifecycle has the rest   *)
(* of the Agent and takes from here only that a setup runs and ends.       *)
(***************************************************************************)
CONSTANTS
  Shape,   \* what may be asked for: a new pane or the client's, a prompt or none
  Fault    \* what may go wrong around the program

ASSUME OpenCodeSetupAssumption ==
  /\ Shape \subseteq [owned : BOOLEAN, prompt : BOOLEAN]
  /\ Fault \subseteq {"tmux",  \* a call to tmux fails, done or not
                     "lost",  \* an answer to the plugin that does not arrive
                     "early"} \* a deletion overtakes the registration

VARIABLES
  shape,    \* what was asked for
  faults,   \* what has gone wrong so far
  setup,    \* the coordinator's record of the setup, and its goroutine
  pane,     \* the tmux pane and its input
  typed,    \* what the goroutine entered into it
  plugin,   \* where the plugin's setupSession is
  shown,    \* the startup session in its TUI
  waiter,   \* who waits for the outcome: CreateAgent, or the wrapper
  deleter   \* DELETE /agents/{id}, or the exited event

paneVars == <<pane, typed>>
pluginVars == <<plugin, shown>>
callers == <<waiter, deleter>>
vars == <<shape, faults, setup, paneVars, pluginVars, callers>>

Message == {"none", "ok", "bad"}   \* bad: an error, or another model or variant
Setup ==
  [entry : BOOLEAN,      \* is it in the coordinator's map?
   expired : BOOLEAN,    \* has its context ended?
   prompt : BOOLEAN,     \* is there a prompt still to be entered?
   proceed : BOOLEAN,    \* is the channel "proceed" closed?
   chan : [{"pane", "ready", "opened"} -> Message],   \* the buffered channels
   got : [{"pane", "ready"} -> Message],              \* what was received
   run : {"none", "collect", "disable", "opened", "check", "paste", "enter",
          "restore", "done", "panic"},
   outcome : {"ok", "err"},           \* what it is about to report
   result : {"none", "ok", "err"}]    \* what it reported, closing "done"

TypeOK ==
  /\ shape \in Shape /\ faults \subseteq Fault
  /\ setup \in Setup
  /\ pane \in {"none", "on", "off", "closed"}
  /\ typed \in {"nothing", "prompt", "submitted"}
  /\ plugin \in {"none", "ready", "waits", "excuse", "excused", "create", "verify",
                 "withdraw", "ended", "gone"}
  /\ shown \in {"none", "created", "verified"}
  /\ waiter \in {"register", "window", "give", "lookup", "wait", "cancel", "await",
                 "stop", "forget", "ok", "failed"}
  /\ deleter \in {"idle", "cancel", "await", "forget", "done"}

Init ==
  /\ shape \in Shape
  /\ faults = {}
  /\ setup = [entry |-> FALSE, expired |-> FALSE, prompt |-> shape.prompt, proceed |-> FALSE,
              chan |-> [c \in {"pane", "ready", "opened"} |-> "none"],
              got |-> [c \in {"pane", "ready"} |-> "none"],
              run |-> "none", outcome |-> "ok", result |-> "none"]
  /\ pane = IF shape.owned THEN "none" ELSE "on"
  /\ typed = "nothing"
  /\ plugin = "none" /\ shown = "none"
  /\ waiter = "register" /\ deleter = "idle"

Happens(f) == f \in Fault /\ faults' = faults \cup {f}
PaneUp == pane \in {"on", "off"}
Done == setup.result # "none"
Running == setup.run \notin {"none", "done", "panic"}
Up == setup.run # "panic"   \* a nil dereference takes the whole daemon down

------------------------------------------------------------------------------
(* The goroutine                                                           *)

Goes(step) == [setup EXCEPT !.run = step]
Fails(step) == [setup EXCEPT !.run = step, !.outcome = "err"]

(* finish: the error is stored, the prompt dropped, "done" closed and, at  *)
(* last, the context ended.                                                *)
Finished(how) ==
  [setup EXCEPT !.run = "done", !.outcome = how, !.result = how, !.prompt = FALSE,
                !.expired = TRUE]

Deadline ==
  /\ Running /\ ~ setup.expired
  /\ setup' = [setup EXCEPT !.expired = TRUE]
  /\ UNCHANGED <<shape, faults, paneVars, pluginVars, callers>>

(* The select of run: whichever of the channels has something.             *)
Collect ==
  /\ setup.run = "collect"
  /\ \/ setup.expired /\ setup' = Finished("err")
     \/ \E c \in {"pane", "ready"} :
          LET got == [setup.got EXCEPT ![c] = setup.chan[c]]
              taken == [setup EXCEPT !.got = got, !.chan[c] = "none"]
          IN /\ setup.chan[c] # "none"
             /\ setup' = IF "none" \in {got["pane"], got["ready"]} THEN taken
                         ELSE IF got["ready"] = "bad" THEN Finished("err")
                         ELSE [taken EXCEPT !.run = "disable"]
  /\ UNCHANGED <<shape, faults, paneVars, pluginVars, callers>>

(* A call to tmux with the context of the setup: it is done, or it fails,  *)
(* after all or some of its commands, or none.                             *)
CallTmux(effect, some, next) ==
  /\ \/ PaneUp /\ ~ setup.expired /\ effect /\ setup' = next /\ UNCHANGED faults
     \/ /\ setup' = Fails("restore")
        /\ \/ (~ PaneUp \/ setup.expired) /\ UNCHANGED <<faults, paneVars>>
           \/ PaneUp /\ Happens("tmux") /\ some
  /\ UNCHANGED <<shape, pluginVars, callers>>

Disable ==
  /\ setup.run = "disable"
  /\ CallTmux(pane' = "off" /\ UNCHANGED typed, pane' \in {pane, "off"} /\ UNCHANGED typed,
              [setup EXCEPT !.run = "opened", !.proceed = TRUE])

(* Mutant: a report is as good as another.                                 *)
VerifiedAnyway ==
  /\ setup.run = "opened" /\ setup.chan["opened"] # "none"
  /\ setup' = [setup EXCEPT !.run = "check", !.chan["opened"] = "none"]
  /\ UNCHANGED <<shape, faults, paneVars, pluginVars, callers>>

Verified ==
  /\ setup.run = "opened"
  /\ \/ setup.expired /\ setup' = Fails("restore")
     \/ setup.chan["opened"] = "bad" /\ setup' = Fails("restore")
     \/ /\ setup.chan["opened"] = "ok"
        /\ setup' = [setup EXCEPT !.run = "check", !.chan["opened"] = "none"]
  /\ UNCHANGED <<shape, faults, paneVars, pluginVars, callers>>

(* Is there a prompt?  Forget writes the field, and nothing orders the two. *)
CheckPrompt ==
  /\ setup.run = "check"
  /\ setup' = Goes(IF setup.prompt THEN "paste" ELSE "restore")
  /\ UNCHANGED <<shape, faults, paneVars, pluginVars, callers>>

(* One call of three commands, which enable the input, paste and disable   *)
(* it again, and between which tmux reads no key of the user's; it ends    *)
(* with the first of them that fails.  Enter is the same with a key.       *)
Paste ==
  /\ setup.run = "paste" /\ setup.prompt
  /\ CallTmux(typed' = "prompt" /\ UNCHANGED pane,
              typed' \in {typed, "prompt"} /\ pane' \in {pane, "on"},
              [setup EXCEPT !.run = "enter", !.prompt = FALSE])

Panic ==
  /\ setup.run = "paste" /\ ~ setup.prompt
  /\ setup' = Goes("panic")
  /\ UNCHANGED <<shape, faults, paneVars, pluginVars, callers>>

Enter ==
  /\ setup.run = "enter"
  /\ CallTmux(typed' = "submitted" /\ UNCHANGED pane,
              typed' \in {typed, "submitted"} /\ pane' \in {pane, "on"}, Goes("restore"))

(* Mutant: the input is left as it is after a failure.                     *)
RestoreOnSuccess ==
  /\ setup.run = "restore"
  /\ setup' = Finished(setup.outcome)
  /\ pane' = IF setup.outcome = "ok" /\ PaneUp THEN "on" ELSE pane
  /\ UNCHANGED <<shape, faults, typed, pluginVars, callers>>

(* The deferred call: with a context of its own, so the deadline of the    *)
(* setup does not cut it.  Its error makes the setup fail.                 *)
Restore ==
  /\ setup.run = "restore"
  /\ \/ PaneUp /\ pane' = "on" /\ setup' = Finished(setup.outcome) /\ UNCHANGED faults
     \/ ~ PaneUp /\ setup' = Finished("err") /\ UNCHANGED <<pane, faults>>
     \/ PaneUp /\ Happens("tmux") /\ setup' = Finished("err") /\ pane' \in {pane, "on"}
  /\ UNCHANGED <<shape, typed, pluginVars, callers>>

------------------------------------------------------------------------------
(* The plugin                                                              *)

(* It starts with the TUI in the pane and looks the model up.              *)
StartPlugin ==
  /\ plugin = "none" /\ PaneUp /\ setup.run # "none"
  /\ plugin' \in {"ready", "excuse"}
  /\ UNCHANGED <<shape, faults, setup, paneVars, shown, callers>>

(* A call of Ready or Opened: the setup is looked up, and the channel may  *)
(* be full.  A caller that is cut off takes that for a failure.            *)
Post(from, c, m, sent, failed) ==
  /\ plugin = from /\ Up
  /\ \/ /\ setup.entry /\ setup.chan[c] = "none"
        /\ setup' = [setup EXCEPT !.chan[c] = m]
        /\ \/ plugin' = sent /\ UNCHANGED faults
           \/ plugin' = failed /\ Happens("lost")
     \/ /\ ~ setup.entry \/ setup.chan[c] # "none"
        /\ plugin' = failed
        /\ UNCHANGED <<faults, setup>>
  /\ UNCHANGED <<shape, paneVars, shown, callers>>

(* An error is reported once: whether that fails is not looked at.         *)
PostReady == Post("ready", "ready", "ok", "waits", "excuse")
PostExcuse == Post("excuse", "ready", "bad", "excused", "ended")

(* Mutant: the handler does not watch "done".                              *)
ReadyReturnsOnProceed ==
  /\ plugin \in {"waits", "excused"} /\ setup.proceed
  /\ plugin' = IF plugin = "waits" THEN "create" ELSE "ended"
  /\ UNCHANGED <<shape, faults, setup, paneVars, shown, callers>>

(* Ready returns without an error in both cases.                           *)
ReadyReturns ==
  /\ plugin \in {"waits", "excused"}
  /\ setup.proceed \/ Done
  /\ plugin' = IF plugin = "waits" THEN "create" ELSE "ended"
  /\ UNCHANGED <<shape, faults, setup, paneVars, shown, callers>>

ReadyLost ==
  /\ plugin = "waits"
  /\ IF Up THEN Happens("lost") ELSE UNCHANGED faults
  /\ plugin' = "excuse"
  /\ UNCHANGED <<shape, setup, paneVars, shown, callers>>

CreateSession ==
  /\ plugin = "create"
  /\ \/ plugin' = "verify" /\ shown' = "created"
     \/ plugin' = "withdraw" /\ UNCHANGED shown
  /\ UNCHANGED <<shape, faults, setup, paneVars, callers>>

(* The conversation the TUI displays is read back and compared.            *)
VerifySession ==
  /\ plugin = "verify" /\ shown = "created"
  /\ \/ shown' = "verified" /\ UNCHANGED plugin
     \/ plugin' = "withdraw" /\ UNCHANGED shown
  /\ UNCHANGED <<shape, faults, setup, paneVars, callers>>

(* Mutant: what the TUI displays is reported before it is read back.       *)
PostOpenedUnverified == Post("verify", "opened", "ok", "ended", "withdraw")
PostOpened == shown = "verified" /\ Post("verify", "opened", "ok", "ended", "withdraw")
PostWithdrawal == Post("withdraw", "opened", "bad", "ended", "ended")

(* The TUI ends, and the pane of the daemon's closes with it; the plugin   *)
(* aborts its calls.                                                       *)
EndTUI ==
  /\ plugin # "gone" /\ PaneUp
  /\ plugin' = "gone"
  /\ pane' = IF shape.owned THEN "closed" ELSE pane
  /\ UNCHANGED <<shape, faults, setup, typed, shown, callers>>

------------------------------------------------------------------------------
(* Who waits                                                               *)

Forgotten == [setup EXCEPT !.entry = FALSE, !.prompt = IF setup.entry THEN FALSE ELSE @]
Cancelled == [setup EXCEPT !.expired = @ \/ setup.entry]

(* Register starts the goroutine.  A pane of the client's is known to it.  *)
Register ==
  /\ waiter = "register" /\ Up
  /\ setup' = [setup EXCEPT !.entry = TRUE, !.run = "collect",
                            !.chan["pane"] = IF shape.owned THEN "none" ELSE "ok"]
  /\ waiter' = IF shape.owned THEN "window" ELSE "lookup"
  /\ UNCHANGED <<shape, faults, paneVars, pluginVars, deleter>>

(* CreateAgent opens the window and records its pane, or fails to.         *)
OpenWindow ==
  /\ waiter = "window" /\ Up
  /\ \/ pane' = "on" /\ waiter' = "give"
     \/ UNCHANGED pane /\ waiter' = "cancel"
  /\ UNCHANGED <<shape, faults, setup, typed, pluginVars, deleter>>

(* SetPane.  The record of the Agent may be gone before.                   *)
GivePane ==
  /\ waiter = "give" /\ Up
  /\ \/ /\ waiter' = "lookup"
        /\ setup' = [setup EXCEPT !.chan["pane"] = IF setup.entry THEN "ok" ELSE @]
     \/ /\ deleter = "done" /\ waiter' = "cancel"
        /\ UNCHANGED setup
  /\ UNCHANGED <<shape, faults, paneVars, pluginVars, deleter>>

(* Wait looks the setup up; the handler forgets one it does not find, too. *)
LookUp ==
  /\ waiter = "lookup" /\ Up
  /\ waiter' = IF setup.entry THEN "wait" ELSE IF shape.owned THEN "cancel" ELSE "forget"
  /\ UNCHANGED <<shape, faults, setup, paneVars, pluginVars, deleter>>

WaitReturns ==
  /\ waiter = "wait" /\ Up
  /\ \/ setup.result = "ok" /\ setup' = Forgotten /\ waiter' = "ok"
     \/ /\ setup.result = "err" /\ waiter' = IF shape.owned THEN "cancel" ELSE "forget"
        /\ UNCHANGED setup
  /\ UNCHANGED <<shape, faults, paneVars, pluginVars, deleter>>

(* Mutant: the handler forgets the setup when its client hangs up, too.    *)
HangUpForgets ==
  /\ waiter = "wait"
  /\ waiter' = IF shape.owned THEN "cancel" ELSE "forget"
  /\ UNCHANGED <<shape, faults, setup, paneVars, pluginVars, deleter>>

(* A client that hangs up makes CreateAgent clean up.                      *)
HangUp ==
  /\ waiter = "wait"
  /\ waiter' = IF shape.owned THEN "cancel" ELSE "failed"
  /\ UNCHANGED <<shape, faults, setup, paneVars, pluginVars, deleter>>

(* Cancel: end the context of the setup that is found and wait for "done". *)
WaiterCancels ==
  /\ \/ /\ waiter = "cancel" /\ Up
        /\ setup' = Cancelled
        /\ waiter' = IF setup.entry THEN "await" ELSE "stop"
     \/ waiter = "await" /\ Done /\ waiter' = "stop" /\ UNCHANGED setup
  /\ UNCHANGED <<shape, faults, paneVars, pluginVars, deleter>>

(* stopFailedOwnedAgent kills the pane, if there is one.                   *)
WaiterStops ==
  /\ waiter = "stop" /\ Up
  /\ waiter' = "forget"
  /\ \/ PaneUp /\ pane' = "closed" /\ plugin' = "gone" /\ UNCHANGED faults
     \/ ~ PaneUp /\ UNCHANGED <<pane, plugin, faults>>
     \/ PaneUp /\ Happens("tmux") /\ UNCHANGED <<pane, plugin>>
  /\ UNCHANGED <<shape, setup, typed, shown, deleter>>

WaiterForgets ==
  /\ waiter = "forget" /\ Up
  /\ setup' = Forgotten
  /\ waiter' = "failed"
  /\ UNCHANGED <<shape, faults, paneVars, pluginVars, deleter>>

------------------------------------------------------------------------------
(* DELETE /agents/{id} and the exited event: both cancel, then forget.     *)

BeginDelete ==
  /\ deleter = "idle" /\ Up
  /\ deleter' = "cancel"
  /\ UNCHANGED <<shape, faults, setup, paneVars, pluginVars, waiter>>

DeleterCancels ==
  /\ \/ /\ deleter = "cancel" /\ Up
        /\ IF setup.run = "none" THEN Happens("early") ELSE UNCHANGED faults
        /\ setup' = Cancelled
        /\ deleter' = IF setup.entry THEN "await" ELSE "forget"
     \/ deleter = "await" /\ Done /\ deleter' = "forget" /\ UNCHANGED <<setup, faults>>
  /\ UNCHANGED <<shape, paneVars, pluginVars, waiter>>

DeleterForgets ==
  /\ deleter = "forget" /\ Up
  /\ setup' = Forgotten
  /\ deleter' = "done"
  /\ UNCHANGED <<shape, faults, paneVars, pluginVars, waiter>>

------------------------------------------------------------------------------

Run == Collect \/ Disable \/ Verified \/ CheckPrompt \/ Paste \/ Panic \/ Enter \/ Restore
Handler == PostReady \/ PostExcuse \/ ReadyReturns \/ PostOpened \/ PostWithdrawal
Waiter ==
  \/ Register \/ OpenWindow \/ GivePane \/ LookUp \/ WaitReturns \/ WaiterCancels
  \/ WaiterStops \/ WaiterForgets
Deleter == DeleterCancels \/ DeleterForgets
Next ==
  \/ Run \/ Deadline \/ Handler \/ Waiter \/ Deleter
  \/ StartPlugin \/ ReadyLost \/ CreateSession \/ VerifySession \/ EndTUI
  \/ HangUp \/ BeginDelete

(* The daemon goes on and its timers fire; of the plugin nothing is asked. *)
Spec ==
  /\ Init /\ [][Next]_vars
  /\ WF_vars(Run) /\ WF_vars(Deadline) /\ WF_vars(ReadyReturns)
  /\ WF_vars(Waiter) /\ WF_vars(Deleter)

------------------------------------------------------------------------------
(* Properties                                                              *)

(* Who is told that the setup succeeded has a verified session on display, *)
(* its input back, and the prompt submitted if there was one; a deletion   *)
(* that ran ahead of the registration is the one exception.                *)
SuccessIsComplete ==
  waiter = "ok" /\ "early" \notin faults =>
    /\ shown = "verified" /\ pane # "off"
    /\ typed = IF shape.prompt THEN "submitted" ELSE "nothing"

(* Nothing is entered into the pane but the prompt, at most once, behind a *)
(* disabled input, and after the session on display was verified.          *)
PromptGoesToVerified ==
  [][typed' # typed => /\ pane = "off" /\ shown = "verified"
                       /\ <<typed, typed'>> \in {<<"nothing", "prompt">>, <<"prompt", "submitted">>}]_vars

(* A setup that has ended, however it did, has given the input back: only  *)
(* tmux can keep the user out of the pane.                                 *)
InputComesBack == Done /\ "tmux" \notin faults => pane # "off"

(* The prompt of a setup is not taken from it while it runs, so that the   *)
(* goroutine never follows a nil pointer: Forget comes after "done" for    *)
(* all callers but a deletion that cancelled before there was a setup.     *)
PromptStays ==
  /\ setup.run \in {"collect", "disable", "opened", "check", "paste"} /\ "early" \notin faults
       => setup.prompt = shape.prompt
  /\ ~ Up => "early" \in faults

(* Nobody waits for ever: the setup ends, and with it every call of Ready, *)
(* Wait and Cancel that waits for it, also when the plugin never answers.  *)
NobodyWaitsForever ==
  /\ Running ~> ~ Running
  /\ plugin = "waits" ~> plugin # "waits" \/ ~ Up
  /\ waiter \in {"wait", "await"} ~> waiter \notin {"wait", "await"} \/ ~ Up
  /\ deleter = "await" ~> deleter # "await" \/ ~ Up

(* ADR 0019: the plugin creates and displays the session "after the Daemon *)
(* disables pane input".                                                   *)
SessionBehindDisabledInput ==
  [][shown = "none" /\ shown' = "created" => pane = "off"]_vars
==============================================================================
