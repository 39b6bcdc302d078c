-------------------------- MODULE OpenCodeSetupProofs --------------------------
(***************************************************************************)
(* Proofs about OpenCodeSetup, for either kind of pane, with or without a  *)
(* prompt, and whatever goes wrong.                                        *)
(***************************************************************************)
EXTENDS OpenCodeSetup, TLAPS

------------------------------------------------------------------------------
(* The inductive invariant                                                 *)

(* The setup begins with its registration and ends with its outcome.       *)
Stages ==
  /\ Done <=> setup.run = "done"
  /\ waiter = "register" <=> setup.run = "none"
  /\ setup.run = "none" => ~ setup.entry
  /\ setup.outcome = "err" => setup.run \in {"restore", "done"}

(* The pane is known to the goroutine before it goes on, and not before    *)
(* the window is there: a new one opens under no setup that types.         *)
PaneKnown ==
  /\ waiter \in {"register", "window", "give"} =>
       setup.chan["pane"] = "none" /\ setup.got["pane"] = "none"
  /\ setup.run \notin {"none", "collect", "done"} => setup.got["pane"] # "none"
  /\ setup.run \in {"opened", "check", "paste", "enter"} => pane \in {"off", "closed"}
  /\ pane = "off" =>
       \/ setup.run \in {"opened", "check", "paste", "enter", "restore", "panic"}
       \/ "tmux" \in faults

(* Who forgets the setup has seen it end, found none, or came too early.   *)
ForgottenLast ==
  /\ waiter \in {"stop", "forget"} => Done \/ ~ setup.entry
  /\ deleter = "forget" => \/ Done \/ "early" \in faults
                           \/ ~ setup.entry /\ setup.run # "none"

(* The prompt is the one asked for as long as it is not entered.           *)
PromptKept ==
  /\ setup.run = "none" => setup.prompt = shape.prompt
  /\ setup.run \in {"collect", "disable", "opened", "check", "paste"} /\ "early" \notin faults
       => setup.prompt = shape.prompt
  /\ setup.prompt \/ setup.run \in {"paste", "enter"} => shape.prompt
  /\ setup.run = "panic" => "early" \in faults

(* What was reported and what is on display.                               *)
Displayed ==
  /\ shown # "none" => plugin \in {"verify", "withdraw", "ended", "gone"}
  /\ setup.chan["opened"] = "ok" => shown = "verified"
  /\ setup.run \in {"check", "paste", "enter"} => shown = "verified"

(* What is in the pane, stage by stage.                                    *)
Complete ==
  /\ shown = "verified"
  /\ "early" \in faults \/ typed = IF shape.prompt THEN "submitted" ELSE "nothing"
Typing ==
  /\ setup.run \in {"none", "collect", "disable", "opened", "check", "paste"} => typed = "nothing"
  /\ setup.run = "enter" => typed = "prompt"
  /\ setup.run = "restore" /\ setup.outcome = "ok" => Complete
  /\ setup.result = "ok" => Complete /\ pane # "off"
  /\ waiter = "ok" => setup.result = "ok"

IInv ==
  /\ TypeOK
  /\ Stages
  /\ PaneKnown
  /\ ForgottenLast
  /\ PromptKept
  /\ Displayed
  /\ Typing

------------------------------------------------------------------------------
(* The updates of the record                                               *)

Stage == {"none", "collect", "disable", "opened", "check", "paste", "enter",
          "restore", "done", "panic"}

(* Going on, in either way, and ending leave a record of a setup.          *)
LEMMA SetupGoes ==
  ASSUME setup \in Setup, NEW step \in Stage, NEW how \in {"ok", "err"}
  PROVE  /\ Goes(step) \in Setup /\ Fails(step) \in Setup
         /\ Finished(how) \in Setup
  BY DEF Setup, Stage, Goes, Fails, Finished

(* So does going on to a stage with one of the fields set.                 *)
LEMMA SetupSets ==
  ASSUME setup \in Setup, NEW step \in Stage
  PROVE  /\ [setup EXCEPT !.run = step, !.proceed = TRUE] \in Setup
         /\ [setup EXCEPT !.run = step, !.prompt = FALSE] \in Setup
  BY DEF Setup, Stage

(* So do the end of the time there is, and being cancelled or forgotten.   *)
LEMMA SetupEnds ==
  ASSUME setup \in Setup
  PROVE  /\ [setup EXCEPT !.expired = TRUE] \in Setup
         /\ Cancelled \in Setup /\ Forgotten \in Setup
  BY DEF Setup, Cancelled, Forgotten

(* And so do the sending to a channel and the receiving from it.           *)
LEMMA SetupChannels ==
  ASSUME setup \in Setup
  PROVE  /\ \A c \in {"pane", "ready", "opened"}, m \in Message :
              [setup EXCEPT !.chan[c] = m] \in Setup
         /\ [setup EXCEPT !.run = "check", !.chan["opened"] = "none"] \in Setup
         /\ \A m \in Message :
              [setup EXCEPT !.entry = TRUE, !.run = "collect", !.chan["pane"] = m] \in Setup
         /\ \A c \in {"pane", "ready"} : [setup.got EXCEPT ![c] = setup.chan[c]]
              \in [{"pane", "ready"} -> Message]
  BY DEF Setup, Stage, Message

(* What the end of a setup leaves in its record.                           *)
LEMMA FinishedFields ==
  ASSUME setup \in Setup, NEW how \in {"ok", "err"}, setup' = Finished(how)
  PROVE  /\ setup'.run = "done" /\ setup'.result = how /\ setup'.outcome = how
         /\ ~ setup'.prompt /\ setup'.entry = setup.entry
         /\ setup'.chan = setup.chan /\ setup'.got = setup.got
  BY DEF Setup, Finished

(* What a receipt does: it leaves the rest of the record alone, and the    *)
(* setup goes on only when both parts are there.                           *)
LEMMA CollectFields ==
  ASSUME setup \in Setup, NEW c \in {"pane", "ready"}, NEW got, NEW taken,
         setup.run = "collect", setup.chan[c] # "none",
         got = [setup.got EXCEPT ![c] = setup.chan[c]],
         taken = [setup EXCEPT !.got = got, !.chan[c] = "none"],
         setup' \in {taken, [taken EXCEPT !.run = "disable"]}
  PROVE  /\ setup' \in Setup
         /\ setup'.run \in {"collect", "disable"}
         /\ setup' = taken => setup'.run = "collect"
         /\ setup'.got = got /\ setup'.chan = [setup.chan EXCEPT ![c] = "none"]
         /\ setup'.chan["opened"] = setup.chan["opened"]
         /\ setup'.entry = setup.entry /\ setup'.prompt = setup.prompt
         /\ setup'.outcome = setup.outcome /\ setup'.result = setup.result
  <1>1. got \in [{"pane", "ready"} -> Message]
    BY SetupChannels
  <1>2. [setup.chan EXCEPT ![c] = "none"] \in [{"pane", "ready", "opened"} -> Message]
    BY DEF Setup, Message
  <1>3. taken = [setup EXCEPT !.got = got, !.chan = [setup.chan EXCEPT ![c] = "none"]]
    BY DEF Setup
  <1>4. /\ taken \in Setup /\ taken.run = "collect"
        /\ taken.got = got /\ taken.chan = [setup.chan EXCEPT ![c] = "none"]
        /\ taken.entry = setup.entry /\ taken.prompt = setup.prompt
        /\ taken.outcome = setup.outcome /\ taken.result = setup.result
    <2> DEFINE chan == [setup.chan EXCEPT ![c] = "none"]
    <2>1. taken = [setup EXCEPT !.got = got, !.chan = chan]
      BY <1>3
    <2>2. chan \in [{"pane", "ready", "opened"} -> Message]
      BY <1>2
    <2> HIDE DEF chan
    <2> QED
      BY <1>1, <2>1, <2>2 DEF Setup, chan
  <1>5. /\ setup' \in Setup
        /\ setup'.run \in {"collect", "disable"}
        /\ setup' = taken => setup'.run = "collect"
        /\ setup'.got = got /\ setup'.chan = taken.chan
        /\ setup'.entry = setup.entry /\ setup'.prompt = setup.prompt
        /\ setup'.outcome = setup.outcome /\ setup'.result = setup.result
    <2>1. CASE setup' = taken
      BY <1>4, <2>1
    <2>2. CASE setup' # taken /\ setup' = [taken EXCEPT !.run = "disable"]
      BY <1>4, <2>2 DEF Setup
    <2> QED
      BY <2>1, <2>2
  <1>6. [setup.chan EXCEPT ![c] = "none"]["opened"] = setup.chan["opened"]
    BY DEF Setup
  <1> QED
    BY <1>4, <1>5, <1>6

(* What is left of the record of a setup that is forgotten.                *)
LEMMA ForgottenFields ==
  ASSUME setup \in Setup, setup' = Forgotten
  PROVE  /\ ~ setup'.entry /\ setup'.prompt \in BOOLEAN
         /\ setup'.prompt => setup.prompt
         /\ ~ setup.entry => setup'.prompt = setup.prompt
         /\ setup'.run = setup.run /\ setup'.outcome = setup.outcome
         /\ setup'.result = setup.result /\ setup'.expired = setup.expired
         /\ setup'.chan = setup.chan /\ setup'.got = setup.got
  <1>1. CASE setup.entry
    BY <1>1 DEF Setup, Forgotten
  <1>2. CASE ~ setup.entry
    BY <1>2 DEF Setup, Forgotten
  <1> QED
    BY <1>1, <1>2 DEF Setup

------------------------------------------------------------------------------
(* The steps that need more than their definition                         *)

(* A receipt, or the end of the time there was for it.                     *)
LEMMA CollectStep ==
  ASSUME IInv, Collect
  PROVE  IInv'
  <1> USE DEF IInv, TypeOK, Stages, PaneKnown, ForgottenLast, PromptKept, Displayed, Typing
  <1>1. CASE setup' = Finished("err")
    <2>1. setup' \in Setup
      BY <1>1, SetupGoes DEF Stage
    <2> QED
      BY <1>1, <2>1, FinishedFields DEF Collect, Done, Complete, paneVars, pluginVars, callers
  <1>2. CASE setup' # Finished("err")
    <2>1. PICK c \in {"pane", "ready"} :
            LET got == [setup.got EXCEPT ![c] = setup.chan[c]]
                taken == [setup EXCEPT !.got = got, !.chan[c] = "none"]
            IN /\ setup.chan[c] # "none"
               /\ setup' = IF "none" \in {got["pane"], got["ready"]} THEN taken
                           ELSE [taken EXCEPT !.run = "disable"]
      BY <1>2 DEF Collect
    <2> DEFINE got == [setup.got EXCEPT ![c] = setup.chan[c]]
               taken == [setup EXCEPT !.got = got, !.chan[c] = "none"]
    <2>2. setup.run = "collect" /\ UNCHANGED <<shape, faults, paneVars, pluginVars, callers>>
      BY DEF Collect
    <2>3. setup' \in {taken, [taken EXCEPT !.run = "disable"]}
      BY <2>1
    <2>4. got["pane"] = IF c = "pane" THEN setup.chan["pane"] ELSE setup.got["pane"]
      BY DEF Setup
    <2>5. /\ setup' \in Setup /\ setup'.run \in {"collect", "disable"}
          /\ setup'.entry = setup.entry /\ setup'.prompt = setup.prompt
          /\ setup'.outcome = setup.outcome /\ setup'.result = setup.result
          /\ setup'.got = got
          /\ setup'.chan = [setup.chan EXCEPT ![c] = "none"]
          /\ setup'.chan["opened"] = setup.chan["opened"]
      BY <2>1, <2>2, <2>3, CollectFields
    <2>6. setup'.run = "disable" => got["pane"] # "none"
      BY <2>1, <2>5
    <2>7. setup.chan["pane"] = "none" /\ setup.got["pane"] = "none"
            => setup'.chan["pane"] = "none" /\ setup'.got["pane"] = "none"
      BY <2>1, <2>4, <2>5 DEF Setup
    <2> HIDE DEF got, taken
    <2> QED
      BY <2>2, <2>5, <2>6, <2>7 DEF Done, Complete, paneVars, pluginVars, callers
  <1> QED
    BY <1>1, <1>2

(* The input of the pane is disabled.                                      *)
LEMMA DisableStep ==
  ASSUME IInv, Disable
  PROVE  IInv'
  <1>1. TypeOK'
    BY SetupGoes, SetupSets
    DEF IInv, TypeOK, Stage, Disable, CallTmux, PaneUp, Happens, Fails, Done, Complete,
        paneVars, pluginVars, callers
  <1>2. (Stages /\ PaneKnown /\ ForgottenLast /\ PromptKept /\ Displayed /\ Typing)'
    BY DEF IInv, TypeOK, Stages, PaneKnown, ForgottenLast, PromptKept, Displayed, Typing,
           Disable, CallTmux, PaneUp, Happens, Fails, Done, Complete, paneVars, pluginVars,
           callers, Setup
  <1> QED
    BY <1>1, <1>2 DEF IInv

(* The report of the plugin.                                               *)
LEMMA VerifiedStep ==
  ASSUME IInv, Verified
  PROVE  IInv'
  <1>1. /\ setup \in Setup
        /\ setup' \in {Fails("restore"),
                       [setup EXCEPT !.run = "check", !.chan["opened"] = "none"]}
    BY DEF IInv, TypeOK, Verified
  <1>2. setup' \in Setup
    <2>1. Fails("restore") \in Setup
      BY <1>1, SetupGoes DEF Stage
    <2>2. [setup EXCEPT !.run = "check", !.chan["opened"] = "none"] \in Setup
      BY <1>1, SetupChannels
    <2> QED
      BY <1>1, <2>1, <2>2
  <1>3. TypeOK'
    BY <1>2 DEF IInv, TypeOK, Verified, paneVars, pluginVars, callers
  <1>4. (Stages /\ PaneKnown /\ ForgottenLast /\ PromptKept /\ Displayed /\ Typing)'
    BY DEF IInv, TypeOK, Stages, PaneKnown, ForgottenLast, PromptKept, Displayed, Typing,
           Verified, Fails, Done, Complete, paneVars, pluginVars, callers, Setup
  <1> QED
    BY <1>3, <1>4 DEF IInv

(* The prompt is put into the pane.                                        *)
LEMMA PasteStep ==
  ASSUME IInv, Paste
  PROVE  IInv'
  <1>1. TypeOK'
    BY SetupGoes, SetupSets
    DEF IInv, TypeOK, Stage, Paste, CallTmux, PaneUp, Happens, Fails, Done, Complete, paneVars,
        pluginVars, callers
  <1>2. (Stages /\ PaneKnown /\ ForgottenLast /\ PromptKept /\ Displayed /\ Typing)'
    BY DEF IInv, TypeOK, Stages, PaneKnown, ForgottenLast, PromptKept, Displayed, Typing,
           Paste, CallTmux, PaneUp, Happens, Fails, Done, Complete, paneVars, pluginVars,
           callers, Setup
  <1> QED
    BY <1>1, <1>2 DEF IInv

(* And submitted.                                                          *)
LEMMA EnterStep ==
  ASSUME IInv, Enter
  PROVE  IInv'
  <1>1. TypeOK'
    BY SetupGoes
    DEF IInv, TypeOK, Stage, Enter, Goes, CallTmux, PaneUp, Happens, Fails, Done, Complete,
        paneVars, pluginVars, callers
  <1>2. (Stages /\ PaneKnown /\ ForgottenLast /\ PromptKept /\ Displayed /\ Typing)'
    BY DEF IInv, TypeOK, Stages, PaneKnown, ForgottenLast, PromptKept, Displayed, Typing,
           Enter, Goes, CallTmux, PaneUp, Happens, Fails, Done, Complete, paneVars, pluginVars,
           callers, Setup
  <1> QED
    BY <1>1, <1>2 DEF IInv

(* The time is over.                                                       *)
LEMMA DeadlineStep ==
  ASSUME IInv, Deadline
  PROVE  IInv'
  <1>1. TypeOK'
    BY SetupEnds
    DEF IInv, TypeOK, Stage, Deadline, Running, Done, Complete, paneVars, pluginVars, callers
  <1>2. (Stages /\ PaneKnown /\ ForgottenLast /\ PromptKept /\ Displayed /\ Typing)'
    BY DEF IInv, TypeOK, Stages, PaneKnown, ForgottenLast, PromptKept, Displayed, Typing,
           Deadline, Running, Done, Complete, paneVars, pluginVars, callers, Setup
  <1> QED
    BY <1>1, <1>2 DEF IInv

(* The setup begins.                                                       *)
LEMMA RegisterStep ==
  ASSUME IInv, Register
  PROVE  IInv'
  <1>1. TypeOK'
    BY SetupChannels
    DEF IInv, TypeOK, Stage, Register, Up, Done, Complete, paneVars, pluginVars, callers,
        Message
  <1>2. (Stages /\ PaneKnown /\ ForgottenLast /\ PromptKept /\ Displayed /\ Typing)'
    BY DEF IInv, TypeOK, Stages, PaneKnown, ForgottenLast, PromptKept, Displayed, Typing,
           Register, Up, Done, Complete, paneVars, pluginVars, callers, Setup
  <1> QED
    BY <1>1, <1>2 DEF IInv

(* The pane is handed to the setup, if it is still there.                  *)
LEMMA GivePaneStep ==
  ASSUME IInv, GivePane
  PROVE  IInv'
  <1>1. TypeOK'
    BY SetupChannels
    DEF IInv, TypeOK, Stage, GivePane, Up, Done, Complete, paneVars, pluginVars, callers,
        Message
  <1>2. (Stages /\ PaneKnown /\ ForgottenLast /\ PromptKept /\ Displayed /\ Typing)'
    BY DEF IInv, TypeOK, Stages, PaneKnown, ForgottenLast, PromptKept, Displayed, Typing,
           GivePane, Up, Done, Complete, paneVars, pluginVars, callers, Setup
  <1> QED
    BY <1>1, <1>2 DEF IInv

(* The creation, or the handler, has the outcome.                          *)
LEMMA WaitReturnsStep ==
  ASSUME IInv, WaitReturns
  PROVE  IInv'
  <1>1. TypeOK'
    BY SetupEnds
    DEF IInv, TypeOK, Stage, WaitReturns, Up, Done, Complete, Forgotten, paneVars, pluginVars,
        callers
  <1>2. (Stages /\ PaneKnown /\ ForgottenLast /\ PromptKept /\ Displayed /\ Typing)'
    BY DEF IInv, TypeOK, Stages, PaneKnown, ForgottenLast, PromptKept, Displayed, Typing,
           WaitReturns, Up, Done, Complete, Forgotten, paneVars, pluginVars, callers, Setup
  <1> QED
    BY <1>1, <1>2 DEF IInv

(* The failed creation forgets its setup.                                  *)
LEMMA WaiterForgetsStep ==
  ASSUME IInv, WaiterForgets
  PROVE  IInv'
  <1>1. setup \in Setup /\ setup' = Forgotten /\ setup' \in Setup
    BY SetupEnds DEF IInv, TypeOK, WaiterForgets
  <1> QED
    BY <1>1, ForgottenFields
   
    DEF IInv, TypeOK, Stages, PaneKnown, ForgottenLast, PromptKept, Displayed, Typing,
        WaiterForgets, Done, Complete, paneVars, pluginVars, callers

(* So does a deletion.                                                     *)
LEMMA DeleterForgetsStep ==
  ASSUME IInv, DeleterForgets
  PROVE  IInv'
  <1>1. setup \in Setup /\ setup' = Forgotten /\ setup' \in Setup
    BY SetupEnds DEF IInv, TypeOK, DeleterForgets
  <1> QED
    BY <1>1, ForgottenFields
   
    DEF IInv, TypeOK, Stages, PaneKnown, ForgottenLast, PromptKept, Displayed, Typing,
        DeleterForgets, Done, Complete, paneVars, pluginVars, callers

(* The input is given back, and the setup ends.                            *)
LEMMA RestoreStep ==
  ASSUME IInv, Restore
  PROVE  IInv'
  <1> USE DEF IInv, TypeOK, Stages, PaneKnown, ForgottenLast, PromptKept, Displayed, Typing
  <1>1. PICK how \in {"ok", "err"} :
          /\ setup' = Finished(how)
          /\ how = "ok" => setup.outcome = "ok" /\ pane' = "on"
    BY DEF Restore, Setup
  <1>2. /\ setup.run = "restore" /\ UNCHANGED <<shape, typed, pluginVars, callers>>
        /\ pane' \in {pane, "on"} /\ faults \subseteq faults' /\ faults' \subseteq Fault
        /\ pane' = "off" => "tmux" \in faults'
    BY DEF Restore, Happens, PaneUp
  <1>3. setup' \in Setup
    BY <1>1, SetupGoes DEF Stage
  <1> QED
    BY <1>1, <1>2, <1>3, FinishedFields DEF Done, Complete, paneVars, pluginVars, callers

(* The others do not.                                                      *)
LEMMA OtherSteps ==
  ASSUME IInv,
         CheckPrompt \/ Panic \/ PostReady \/ PostExcuse \/ ReadyReturns \/ PostOpened \/
         PostWithdrawal \/ OpenWindow \/ LookUp \/ WaiterCancels \/ WaiterStops \/
         DeleterCancels \/ StartPlugin \/ ReadyLost \/ CreateSession \/ VerifySession \/
         EndTUI \/ HangUp \/ BeginDelete
  PROVE  IInv'
  <1> USE DEF IInv, TypeOK, Stages, PaneKnown, ForgottenLast, PromptKept, Displayed, Typing,
              Setup, Done, Complete, paneVars, pluginVars, callers
  <1>1. CASE CheckPrompt
    BY <1>1 DEF CheckPrompt, Goes
  <1>2. CASE Panic
    BY <1>2 DEF Panic, Goes
  <1>3. CASE PostReady
    BY <1>3 DEF PostReady, Post, Happens, Up, Message
  <1>4. CASE PostExcuse
    BY <1>4 DEF PostExcuse, Post, Happens, Up, Message
  <1>5. CASE ReadyReturns
    BY <1>5 DEF ReadyReturns
  <1>6. CASE PostOpened
    BY <1>6 DEF PostOpened, Post, Happens, Up, Message
  <1>7. CASE PostWithdrawal
    BY <1>7 DEF PostWithdrawal, Post, Happens, Up, Message
  <1>8. CASE OpenWindow
    BY <1>8 DEF OpenWindow, Up
  <1>9. CASE LookUp
    BY <1>9 DEF LookUp, Up
  <1>10. CASE WaiterCancels
    BY <1>10 DEF WaiterCancels, Up, Cancelled
  <1>11. CASE WaiterStops
    BY <1>11 DEF WaiterStops, Happens, PaneUp, Up
  <1>12. CASE DeleterCancels
    BY <1>12 DEF DeleterCancels, Happens, Up, Cancelled
  <1>13. CASE StartPlugin
    BY <1>13 DEF StartPlugin, PaneUp
  <1>14. CASE ReadyLost
    BY <1>14 DEF ReadyLost, Happens, Up
  <1>15. CASE CreateSession
    BY <1>15 DEF CreateSession
  <1>16. CASE VerifySession
    BY <1>16 DEF VerifySession
  <1>17. CASE EndTUI
    BY <1>17 DEF EndTUI, PaneUp
  <1>18. CASE HangUp
    BY <1>18 DEF HangUp
  <1>19. CASE BeginDelete
    BY <1>19 DEF BeginDelete, Up
  <1> QED
    BY <1>1, <1>2, <1>3, <1>4, <1>5, <1>6, <1>7, <1>8, <1>9, <1>10, <1>11, <1>12, <1>13,
       <1>14, <1>15, <1>16, <1>17, <1>18, <1>19

(* Every step keeps the invariant.                                         *)
LEMMA EveryStep == IInv /\ [Next]_vars => IInv'
  <1> SUFFICES ASSUME IInv, [Next]_vars
               PROVE  IInv'
    OBVIOUS
  <1>1. CASE Run
    BY <1>1, CollectStep, DisableStep, VerifiedStep, PasteStep, EnterStep, RestoreStep, OtherSteps
    DEF Run
  <1>2. CASE Handler
    BY <1>2, OtherSteps DEF Handler
  <1>3. CASE Waiter
    BY <1>3, RegisterStep, GivePaneStep, WaitReturnsStep, WaiterForgetsStep, OtherSteps DEF Waiter
  <1>4. CASE Deleter
    BY <1>4, DeleterForgetsStep, OtherSteps DEF Deleter
  <1>5. CASE UNCHANGED vars
    BY <1>5 DEF IInv, TypeOK, Stages, PaneKnown, ForgottenLast, PromptKept, Displayed, Typing,
                Done, Complete, vars, paneVars, pluginVars, callers
  <1>6. CASE /\ Next /\ ~ Run /\ ~ Handler /\ ~ Waiter /\ ~ Deleter
    BY <1>6, DeadlineStep, OtherSteps DEF Next
  <1> QED
    BY <1>1, <1>2, <1>3, <1>4, <1>5, <1>6

(* IInv is an invariant.                                                   *)
THEOREM Inductive == Spec => []IInv
  <1>1. Init => IInv
    <2> SUFFICES ASSUME Init
                 PROVE  IInv
      OBVIOUS
    <2>1. setup \in Setup
      BY OpenCodeSetupAssumption DEF Init, Setup, Message
    <2> QED
      BY <2>1, OpenCodeSetupAssumption
      DEF Init, IInv, TypeOK, Stages, PaneKnown, ForgottenLast, PromptKept, Displayed, Typing,
          Done, Complete
  <1> QED
    BY <1>1, EveryStep, PTL DEF Spec

------------------------------------------------------------------------------
(* What it says                                                            *)

(* The variables have their types.                                         *)
THEOREM TypesHold == Spec => []TypeOK
  <1>1. IInv => TypeOK
    BY DEF IInv
  <1> QED
    BY <1>1, Inductive, PTL

(* A setup that has ended, however it did, has given the input back.       *)
THEOREM InputAlwaysComesBack == Spec => []InputComesBack
  <1>1. IInv => InputComesBack
    BY DEF IInv, Stages, PaneKnown, InputComesBack, Done
  <1> QED
    BY <1>1, Inductive, PTL

(* The prompt of a running setup is not taken from it, and the goroutine   *)
(* follows no nil pointer, unless a deletion ran ahead of the registration.*)
THEOREM PromptAlwaysStays == Spec => []PromptStays
  <1>1. IInv => PromptStays
    BY DEF IInv, PromptKept, PromptStays, Up
  <1> QED
    BY <1>1, Inductive, PTL

(* Who is told that the setup succeeded has the verified session, its      *)
(* input and, if there was one, the submitted prompt.                      *)
THEOREM SuccessIsAlwaysComplete == Spec => []SuccessIsComplete
  <1>1. IInv => SuccessIsComplete
    BY DEF IInv, Typing, Complete, SuccessIsComplete
  <1> QED
    BY <1>1, Inductive, PTL

(* Nothing but the prompt is entered, at most once, behind a disabled      *)
(* input and in front of the session that was verified.                    *)
THEOREM PromptAlwaysGoesToVerified == Spec => PromptGoesToVerified
  <1> DEFINE A == typed' # typed =>
                    /\ pane = "off" /\ shown = "verified"
                    /\ <<typed, typed'>> \in {<<"nothing", "prompt">>, <<"prompt", "submitted">>}
  <1>1. IInv /\ [Next]_vars => [A]_vars
    <2> SUFFICES ASSUME IInv, [Next]_vars, typed' # typed
                 PROVE  A
      OBVIOUS
    <2> USE DEF IInv, PaneKnown, Displayed, Typing
    <2>1. CASE Paste
      BY <2>1 DEF Paste, CallTmux, PaneUp, paneVars
    <2>2. CASE Enter
      BY <2>2 DEF Enter, CallTmux, PaneUp, paneVars
    <2>3. CASE Run /\ ~ Paste /\ ~ Enter
      BY <2>3 DEF Run, Collect, Disable, CallTmux, Verified, CheckPrompt, Panic, Restore, paneVars
    <2>4. CASE Handler
      BY <2>4 DEF Handler, PostReady, PostExcuse, ReadyReturns, PostOpened, PostWithdrawal, Post,
                  paneVars
    <2>5. CASE Waiter \/ Deleter
      BY <2>5 DEF Waiter, Register, OpenWindow, GivePane, LookUp, WaitReturns, WaiterCancels,
                  WaiterStops, WaiterForgets, Deleter, DeleterCancels, DeleterForgets, paneVars
    <2>6. CASE ~ (Run \/ Handler \/ Waiter \/ Deleter)
      BY <2>6 DEF Next, Deadline, StartPlugin, ReadyLost, CreateSession, VerifySession, EndTUI,
                  HangUp, BeginDelete, vars, paneVars
    <2> QED
      BY <2>1, <2>2, <2>3, <2>4, <2>5, <2>6
  <1> QED
    BY <1>1, Inductive, PTL DEF Spec, PromptGoesToVerified
==============================================================================
