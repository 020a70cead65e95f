------------------------------- MODULE OtaPal -------------------------------
(***************************************************************************)
(* The OTA platform layer of the non-TrustZone image,                      *)
(* Projects/b_u585i_iot02a_ntz/Src/ota_pal/ota_pal_stm32u5_ntz.c, and the  *)
(* boot sequence of app_main.c that drives it.                             *)
(*                                                                         *)
(* What survives a reset: the two flash banks, the SWAP_BANK option byte   *)
(* and the littlefs record.  Everything else is RAM.  A step ends wherever *)
(* the code has just changed something that survives, so that a reset can  *)
(* strike between any two such changes.  All calls come from one task at a *)
(* time: vInitTask until it creates the others, then the OTA client.       *)
(***************************************************************************)
EXTENDS Naturals

CONSTANTS
  NumBlocks,       \* blocks of an image the client writes
  Verdicts,        \* what vInitTask decides about the booted image
  DesiredStates,   \* the states the client asks for
  ResetPoints,     \* the control points at which a reset may strike
  Faults           \* the operations of the drivers that may fail

ImageStates == {"Unknown", "Testing", "Accepted", "Rejected", "Aborted"}

ControlPoints == {"reset", "earlyInit", "earlyErase", "verdict", "app",
                  "createNv", "discardNv", "resetDevice", "selectBank",
                  "obLaunch", "sysReset", "halted"}

(* A reset at the other points only does what the next step does anyway.   *)
Interruptible == ControlPoints \ {"reset", "obLaunch", "sysReset", "halted"}

FaultKinds == {"nvRead", "nvOpen", "nvWrite", "nvStat", "nvDelete",
               "erase", "obProgram"}

ASSUME OtaPalAssumption ==
  /\ NumBlocks \in Nat \ {0}
  /\ Verdicts \subseteq {"Accepted", "Rejected", "Deferred"}
  /\ DesiredStates \subseteq ImageStates
  /\ ResetPoints \subseteq Interruptible
  /\ Faults \subseteq FaultKinds

Banks == {1, 2}

(* OtaPalState_t, without the value the RAM context has before a boot has  *)
(* read the record: that one is "NotInitialized".                          *)
PalStates == {"NotInitialized", "Ready", "FileOpen", "PendingActivation",
              "PendingSelfTest", "NewImageBooted", "NewImageWdtReset",
              "SelfTestFailed", "Accepted", "Rejected", "Invalid"}

(* The content of a bank, and what became of the image in it: "partial" is *)
(* erased or not completely written, "staged" complete and never judged,   *)
(* "failed" an image rejected or reset during its self test.               *)
Contents == {"partial", "staged", "failed", "accepted"}

VARIABLES
  pc,              \* where the calling task stands
  ret,             \* where otaPal_ResetDevice returns to if it does not reset
  image,           \* content of each bank                        [persistent]
  ob,              \* SWAP_BANK option byte: bank mapped at reset [persistent]
  nv,              \* the record in the littlefs file             [persistent]
  bankAtBootup,    \* ulBankAtBootup
  xPalState,       \* xPalContext
  ulTargetBank,
  ulPendingBank,
  uxStatus,        \* main error of otaPal_ResetDevice, success or not
  goal,            \* state a discarded download ends in
  blocks           \* the client's blocksRemaining; NumBlocks + 1: no file

flash == <<image, ob, nv>>
ctx   == <<xPalState, ulTargetBank, ulPendingBank>>
call  == <<ret, uxStatus, goal>>
vars  == <<pc, ret, image, ob, nv, bankAtBootup, xPalState, ulTargetBank,
           ulPendingBank, uxStatus, goal, blocks>>

(* A missing file and one shorter than the record read alike.              *)
NoRecord == [xPalState |-> "NotInitialized", ulFileTargetBank |-> 0]

NoFile == NumBlocks + 1

TypeOK ==
  /\ pc \in ControlPoints
  /\ ret \in {"verdict", "app"}
  /\ image \in [Banks -> Contents]
  /\ ob \in Banks
  /\ nv \in [xPalState : PalStates, ulFileTargetBank : Banks \cup {0}]
  /\ bankAtBootup \in Banks
  /\ xPalState \in PalStates
  /\ ulTargetBank \in Banks \cup {0}
  /\ ulPendingBank \in Banks \cup {0}
  /\ uxStatus \in {"Success", "Failed"}
  /\ goal \in {"Ready", "Rejected"}
  /\ blocks \in 0 .. NoFile

(* Mutant: "no bank" has another bank too.                                 *)
ulGetOtherBankNoZero(b) == 3 - b

ulGetOtherBank(b) == CASE b = 1 -> 2 [] b = 2 -> 1 [] OTHER -> 0

-----------------------------------------------------------------------------
(* Primitives.                                                             *)

(* A failed open, or close, is reported as success; a failed write leaves  *)
(* the old content, since littlefs commits a file when it is closed.       *)
prvWritePalNvContext(state, target, ok) ==
  \/ /\ nv' = [xPalState |-> state, ulFileTargetBank |-> target]
     /\ ok
  \/ /\ "nvOpen" \in Faults
     /\ nv' = nv
     /\ ok
  \/ /\ "nvWrite" \in Faults
     /\ nv' = nv
     /\ ~ok

(* A failed stat is taken for a missing file.  A write that failed may     *)
(* have left a file without a record in it.                                *)
FileMayExist == nv # NoRecord \/ Faults \cap {"nvOpen", "nvWrite"} # {}

prvDeletePalNvContext(ok) ==
  \/ /\ nv' = NoRecord
     /\ ok
  \/ /\ "nvStat" \in Faults
     /\ nv' = nv
     /\ ok
  \/ /\ "nvDelete" \in Faults
     /\ FileMayExist
     /\ nv' = nv
     /\ ~ok

(* Mutant: the running bank may be erased.                                 *)
ErasableRunning(b) == b \in Banks

(* The assertions of prvEraseBank.                                         *)
Erasable(b) == b \in Banks /\ b # bankAtBootup

prvEraseBank(b, ok) ==
  /\ ok \/ "erase" \in Faults
  /\ image' = [image EXCEPT ![b] = "partial"]

(* The image is complete once its last block is programmed.  The blocks go *)
(* to the window of the inactive bank, which is the target.                *)
prvWriteToFlash(b, last) ==
  image' = [image EXCEPT ![b] = IF last THEN "staged" ELSE "partial"]

(* configASSERT spins until the watchdog bites.                            *)
Halt == /\ pc' = "halted"
        /\ UNCHANGED <<flash, ctx, call, bankAtBootup, blocks>>

(* The image on trial in bank b has been judged bad.                       *)
Failed(b) == IF b \in Banks /\ image[b] = "staged"
             THEN [image EXCEPT ![b] = "failed"]
             ELSE image

(* RAM is lost; the option byte is loaded.                                 *)
Restart == /\ pc' = "reset"
           /\ xPalState' = "NotInitialized"
           /\ ulTargetBank' = 0
           /\ ulPendingBank' = 0
           /\ ret' = "app"
           /\ uxStatus' = "Success"
           /\ goal' = "Ready"
           /\ blocks' = NoFile
           /\ bankAtBootup' = ob
           /\ UNCHANGED flash

-----------------------------------------------------------------------------
Init == /\ pc = "reset"
        /\ ret = "app"
        /\ image = [b \in Banks |-> IF b = 1 THEN "accepted" ELSE "partial"]
        /\ ob = 1
        /\ nv = NoRecord
        /\ bankAtBootup = 1
        /\ xPalState = "NotInitialized"
        /\ ulTargetBank = 0
        /\ ulPendingBank = 0
        /\ uxStatus = "Success"
        /\ goal = "Ready"
        /\ blocks = NoFile

(* The first call of a boot reads the record.                              *)
prvInitializePalContext ==
  /\ pc = "reset"
  /\ pc' = "earlyInit"
  /\ \/ /\ nv # NoRecord
        /\ xPalState' = nv.xPalState
        /\ ulTargetBank' = nv.ulFileTargetBank
     \/ /\ nv = NoRecord \/ "nvRead" \in Faults
        /\ xPalState' = "Ready"
        /\ ulTargetBank' = 0
  /\ UNCHANGED <<flash, call, bankAtBootup, ulPendingBank, blocks>>

(* Mutant: the record is not written when the new image first boots.       *)
EarlyInitSelfTestUnsaved ==
  /\ pc = "earlyInit"
  /\ xPalState = "PendingSelfTest"
  /\ \/ /\ ulTargetBank = bankAtBootup
        /\ xPalState' = "NewImageBooted"
        /\ pc' = "verdict"
        /\ UNCHANGED <<flash, call, bankAtBootup, ulTargetBank,
                       ulPendingBank, blocks>>
     \/ ulTargetBank # bankAtBootup /\ Halt

EarlyInitSelfTest ==
  /\ pc = "earlyInit"
  /\ xPalState = "PendingSelfTest"
  /\ \/ /\ ulTargetBank = bankAtBootup
        /\ \E ok \in BOOLEAN :
             prvWritePalNvContext("NewImageBooted", ulTargetBank, ok)
        /\ xPalState' = "NewImageBooted"
        /\ pc' = "verdict"
        /\ UNCHANGED <<image, ob, call, bankAtBootup, ulTargetBank,
                       ulPendingBank, blocks>>
     \/ ulTargetBank # bankAtBootup /\ Halt

(* Mutant: the record is not written when the watchdog reset is detected.  *)
EarlyInitWatchdogUnsaved ==
  /\ pc = "earlyInit"
  /\ xPalState = "NewImageBooted"
  /\ xPalState' = "NewImageWdtReset"
  /\ ulPendingBank' = ulGetOtherBank(ulTargetBank)
  /\ image' = Failed(ulTargetBank)
  /\ uxStatus' = "Success"
  /\ ret' = "verdict"
  /\ pc' = "selectBank"
  /\ UNCHANGED <<ob, nv, bankAtBootup, ulTargetBank, goal, blocks>>

(* The new image was booted before and never judged: go back.  The switch  *)
(* of otaPal_ResetDevice does nothing in this state.                       *)
EarlyInitWatchdog ==
  /\ pc = "earlyInit"
  /\ xPalState = "NewImageBooted"
  /\ \E ok \in BOOLEAN :
        prvWritePalNvContext("NewImageWdtReset", ulTargetBank, ok)
  /\ xPalState' = "NewImageWdtReset"
  /\ ulPendingBank' = ulGetOtherBank(ulTargetBank)
  /\ image' = Failed(ulTargetBank)
  /\ uxStatus' = "Success"
  /\ ret' = "verdict"
  /\ pc' = "selectBank"
  /\ UNCHANGED <<ob, bankAtBootup, ulTargetBank, goal, blocks>>

EarlyInitReverted ==
  /\ pc = "earlyInit"
  /\ xPalState \in {"NewImageWdtReset", "SelfTestFailed"}
  /\ \E ok \in BOOLEAN : prvDeletePalNvContext(ok)
  /\ xPalState' = "Rejected"
  /\ pc' = "earlyErase"
  /\ UNCHANGED <<image, ob, call, bankAtBootup, ulTargetBank, ulPendingBank,
                 blocks>>

EarlyInitErase ==
  /\ pc = "earlyErase"
  /\ \/ /\ Erasable(ulTargetBank)
        /\ \E ok \in BOOLEAN : prvEraseBank(ulTargetBank, ok)
        /\ pc' = "verdict"
        /\ UNCHANGED <<ob, nv, ctx, call, bankAtBootup, blocks>>
     \/ ~Erasable(ulTargetBank) /\ Halt

EarlyInitDefault ==
  /\ pc = "earlyInit"
  /\ xPalState \notin {"PendingSelfTest", "NewImageBooted",
                       "NewImageWdtReset", "SelfTestFailed"}
  /\ pc' = "verdict"
  /\ UNCHANGED <<flash, ctx, call, bankAtBootup, blocks>>

otaPal_EarlyInit == \/ EarlyInitSelfTest
                    \/ EarlyInitWatchdog
                    \/ EarlyInitReverted
                    \/ EarlyInitErase
                    \/ EarlyInitDefault

-----------------------------------------------------------------------------
(* otaPal_SetPlatformImageState.  Every call returns to "app": vInitTask   *)
(* makes one, then creates the tasks, one of which is the client.          *)

Return == /\ pc' = "app"
          /\ UNCHANGED <<flash, ctx, call, bankAtBootup, blocks>>

RunsTarget   == bankAtBootup = ulTargetBank
RunsFallback == bankAtBootup = ulGetOtherBank(ulTargetBank)

AcceptImage ==
  /\ \E ok \in BOOLEAN :
       /\ prvDeletePalNvContext(ok)
       /\ xPalState' = IF ok THEN "Accepted" ELSE xPalState
       /\ image' = IF ok THEN [image EXCEPT ![bankAtBootup] = "accepted"]
                   ELSE image
  /\ ulPendingBank' = ulTargetBank
  /\ pc' = "app"
  /\ UNCHANGED <<ob, call, bankAtBootup, ulTargetBank, blocks>>

SetAccepted ==
  \/ xPalState = "NewImageBooted" /\ RunsTarget /\ AcceptImage
  \/ xPalState = "NewImageBooted" /\ ~RunsTarget /\ Halt
  \/ xPalState # "NewImageBooted" /\ Return

(* Erase the target bank, then the record: Rejected and Aborted share it.  *)
(* The client drops the file it asked to discard.                          *)
DiscardTarget(pending, end) ==
  \/ /\ Erasable(ulTargetBank)
     /\ \E ok \in BOOLEAN :
          /\ prvEraseBank(ulTargetBank, ok)
          /\ pc' = IF ok THEN "discardNv" ELSE "app"
     /\ ulPendingBank' = pending
     /\ goal' = end
     /\ blocks' = NoFile
     /\ UNCHANGED <<ob, nv, ret, uxStatus, bankAtBootup, xPalState,
                    ulTargetBank>>
  \/ ~Erasable(ulTargetBank) /\ Halt

(* The self test or the version check failed: reset into the other bank.   *)
RejectBooted ==
  /\ xPalState' = "SelfTestFailed"
  /\ ulPendingBank' = ulGetOtherBank(ulTargetBank)
  /\ image' = Failed(ulTargetBank)
  /\ ret' = "app"
  /\ pc' = "resetDevice"
  /\ UNCHANGED <<ob, nv, uxStatus, goal, bankAtBootup, ulTargetBank, blocks>>

SetRejected ==
  \/ /\ xPalState \in {"PendingSelfTest", "NewImageBooted"}
     /\ RejectBooted
  \/ /\ xPalState = "SelfTestFailed"
     /\ \/ RunsFallback /\ DiscardTarget(ulPendingBank, "Rejected")
        \/ ~RunsFallback /\ Halt
  \/ /\ xPalState \in {"PendingActivation", "FileOpen"}
     /\ DiscardTarget(ulGetOtherBank(ulTargetBank), "Rejected")
  \/ /\ xPalState \in {"NotInitialized", "Ready", "NewImageWdtReset",
                        "Accepted", "Rejected", "Invalid"}
     /\ Return

(* The states in which the running bank is asserted to be the target, and  *)
(* those in which it is asserted to be the other one.                      *)
AssertedBank(onTarget, onFallback) ==
  /\ xPalState \in onTarget => RunsTarget
  /\ xPalState \in onFallback => RunsFallback

TestingAsserts == AssertedBank({"NewImageBooted"}, {"PendingSelfTest"})

SetTesting == \/ TestingAsserts /\ Return
              \/ ~TestingAsserts /\ Halt

Abortable == {"FileOpen", "PendingActivation", "PendingSelfTest",
              "NewImageWdtReset"}

AbortAsserts ==
  AssertedBank({"NewImageBooted"}, Abortable \cup {"SelfTestFailed"})

SetAborted ==
  \/ ~AbortAsserts /\ Halt
  \/ /\ AbortAsserts
     /\ xPalState \in Abortable
     /\ DiscardTarget(bankAtBootup, "Ready")
  \/ /\ AbortAsserts
     /\ xPalState = "NewImageBooted"
     /\ ulPendingBank' = ulGetOtherBank(ulTargetBank)
     /\ pc' = "app"
     /\ UNCHANGED <<flash, call, bankAtBootup, xPalState, ulTargetBank,
                    blocks>>
  \/ /\ AbortAsserts
     /\ xPalState \notin Abortable \cup {"NewImageBooted"}
     /\ Return

SetUnknown ==
  /\ xPalState' = "Invalid"
  /\ pc' = "app"
  /\ UNCHANGED <<flash, call, bankAtBootup, ulTargetBank, ulPendingBank,
                 blocks>>

otaPal_SetPlatformImageState(desired) ==
  \/ desired = "Accepted" /\ SetAccepted
  \/ desired = "Rejected" /\ SetRejected
  \/ desired = "Testing"  /\ SetTesting
  \/ desired = "Aborted"  /\ SetAborted
  \/ desired = "Unknown"  /\ SetUnknown

(* The record goes only after the bank was erased.                         *)
DiscardRecord ==
  /\ pc = "discardNv"
  /\ \E ok \in BOOLEAN :
       /\ prvDeletePalNvContext(ok)
       /\ xPalState' = IF ok THEN goal ELSE xPalState
  /\ pc' = "app"
  /\ UNCHANGED <<image, ob, call, bankAtBootup, ulTargetBank, ulPendingBank,
                 blocks>>

(* vInitTask judges the image it finds booted, or leaves it to the client. *)
BootVerdict ==
  /\ pc = "verdict"
  /\ \/ \E v \in Verdicts \ {"Deferred"} : otaPal_SetPlatformImageState(v)
     \/ /\ "Deferred" \in Verdicts
        /\ pc' = "app"
        /\ UNCHANGED <<flash, ctx, call, bankAtBootup, blocks>>

ClientSetsState ==
  /\ pc = "app"
  /\ \E d \in DesiredStates : otaPal_SetPlatformImageState(d)

-----------------------------------------------------------------------------
(* Receiving an image.                                                     *)

(* Mutant: an image may be received while the booted one is on trial.      *)
StateAtCreateOnTrial ==
  IF xPalState \in {"Accepted", "Rejected", "NewImageBooted"}
  THEN "Ready" ELSE xPalState

(* Back to back updates start from Ready, even if the request is refused.  *)
StateAtCreate == IF xPalState \in {"Accepted", "Rejected"}
                 THEN "Ready" ELSE xPalState

(* Wrong size or name, wrong state, or no dual bank mode.                  *)
CreateRefused ==
  /\ pc = "app"
  /\ xPalState' = StateAtCreate
  /\ UNCHANGED <<pc, flash, call, bankAtBootup, ulTargetBank, ulPendingBank,
                 blocks>>

CreateFileForRx ==
  /\ pc = "app"
  /\ StateAtCreate = "Ready"
  /\ \/ /\ prvEraseBank(ulGetOtherBank(bankAtBootup), TRUE)
        /\ ulTargetBank' = ulGetOtherBank(bankAtBootup)
        /\ ulPendingBank' = bankAtBootup
        /\ xPalState' = "FileOpen"
        /\ blocks' = NumBlocks
        /\ pc' = "createNv"
     \/ /\ prvEraseBank(ulGetOtherBank(bankAtBootup), FALSE)
        /\ xPalState' = "Ready"
        /\ UNCHANGED <<pc, ulTargetBank, ulPendingBank, blocks>>
  /\ UNCHANGED <<ob, nv, call, bankAtBootup>>

(* If the record cannot be removed the call fails and the file stays open. *)
CreateRecord ==
  /\ pc = "createNv"
  /\ \E ok \in BOOLEAN : prvDeletePalNvContext(ok)
  /\ pc' = "app"
  /\ UNCHANGED <<image, ob, ctx, call, bankAtBootup, blocks>>

(* The client writes each block once, into the file it created.            *)
otaPal_WriteBlock ==
  /\ pc = "app"
  /\ blocks \in 1 .. NumBlocks
  /\ \/ RunsTarget /\ Halt
     \/ /\ ~RunsTarget
        /\ xPalState = "FileOpen"
        /\ blocks' = blocks - 1
        /\ prvWriteToFlash(ulTargetBank, blocks = 1)
        /\ UNCHANGED <<pc, ob, nv, ctx, call, bankAtBootup>>

otaPal_CloseFile ==
  /\ pc = "app"
  /\ blocks = 0
  /\ xPalState = "FileOpen"
  /\ xPalState' = "PendingActivation"
  /\ UNCHANGED <<pc, flash, call, bankAtBootup, ulTargetBank, ulPendingBank,
                 blocks>>

(* The client activates the file it received and closed.                   *)
otaPal_ActivateNewImage ==
  /\ pc = "app"
  /\ blocks = 0
  /\ xPalState = "PendingActivation"
  /\ ulPendingBank' = ulTargetBank
  /\ xPalState' = "PendingSelfTest"
  /\ ret' = "app"
  /\ pc' = "resetDevice"
  /\ UNCHANGED <<flash, uxStatus, goal, bankAtBootup, ulTargetBank, blocks>>

-----------------------------------------------------------------------------
(* otaPal_ResetDevice: save or delete the record, then select the bank,    *)
(* then reset.                                                             *)

ClientResets ==
  /\ pc = "app"
  /\ ret' = "app"
  /\ pc' = "resetDevice"
  /\ UNCHANGED <<flash, ctx, uxStatus, goal, bankAtBootup, blocks>>

Status(ok) == IF ok THEN "Success" ELSE "Failed"

(* A reset during the self test means that the self test has failed.       *)
ResetSelfTest ==
  /\ xPalState = "NewImageBooted"
  /\ \/ ~RunsTarget /\ Halt
     \/ /\ RunsTarget
        /\ \E ok \in BOOLEAN :
             /\ prvWritePalNvContext("SelfTestFailed", ulTargetBank, ok)
             /\ uxStatus' = Status(ok)
        /\ xPalState' = "SelfTestFailed"
        /\ ulPendingBank' = ulGetOtherBank(ulTargetBank)
        /\ image' = Failed(ulTargetBank)
        /\ pc' = "selectBank"
        /\ UNCHANGED <<ob, ret, goal, bankAtBootup, ulTargetBank, blocks>>

(* Mutant: the record names the running bank as the target.                *)
ResetPendingSelfTestTarget ==
  /\ xPalState = "PendingSelfTest"
  /\ \/ ~RunsFallback /\ Halt
     \/ /\ RunsFallback
        /\ \E ok \in BOOLEAN :
             /\ prvWritePalNvContext("PendingSelfTest", bankAtBootup, ok)
             /\ uxStatus' = Status(ok)
        /\ ulPendingBank' = ulTargetBank
        /\ pc' = "selectBank"
        /\ UNCHANGED <<image, ob, ret, goal, bankAtBootup, xPalState,
                       ulTargetBank, blocks>>

ResetPendingSelfTest ==
  /\ xPalState = "PendingSelfTest"
  /\ \/ ~RunsFallback /\ Halt
     \/ /\ RunsFallback
        /\ \E ok \in BOOLEAN :
             /\ prvWritePalNvContext("PendingSelfTest", ulTargetBank, ok)
             /\ uxStatus' = Status(ok)
        /\ ulPendingBank' = ulTargetBank
        /\ pc' = "selectBank"
        /\ UNCHANGED <<image, ob, ret, goal, bankAtBootup, xPalState,
                       ulTargetBank, blocks>>

ResetSelfTestFailed ==
  /\ xPalState = "SelfTestFailed"
  /\ \E ok \in BOOLEAN :
       /\ prvDeletePalNvContext(ok)
       /\ uxStatus' = Status(ok)
  /\ ulPendingBank' = ulGetOtherBank(ulTargetBank)
  /\ pc' = "selectBank"
  /\ UNCHANGED <<image, ob, ret, goal, bankAtBootup, xPalState, ulTargetBank,
                 blocks>>

(* After a watchdog reset the pending bank stands; every other state,      *)
(* Accepted among them, selects the bank that is not the target.           *)
ResetOther ==
  /\ xPalState \notin {"NewImageBooted", "PendingSelfTest", "SelfTestFailed"}
  /\ ulPendingBank' = IF xPalState = "NewImageWdtReset" THEN ulPendingBank
                      ELSE ulGetOtherBank(ulTargetBank)
  /\ uxStatus' = "Success"
  /\ pc' = "selectBank"
  /\ UNCHANGED <<flash, ret, goal, bankAtBootup, xPalState, ulTargetBank,
                 blocks>>

otaPal_ResetDevice ==
  /\ pc = "resetDevice"
  /\ \/ ResetSelfTest
     \/ ResetPendingSelfTest
     \/ ResetSelfTestFailed
     \/ ResetOther

SwapNeeded == ulPendingBank # 0 /\ ulPendingBank # bankAtBootup

prvSelectBank ==
  /\ pc = "selectBank"
  /\ \/ /\ SwapNeeded
        /\ ob' = ulPendingBank
        /\ pc' = "obLaunch"
        /\ UNCHANGED uxStatus
     \/ /\ SwapNeeded
        /\ "obProgram" \in Faults
        /\ uxStatus' = "Failed"
        /\ pc' = "sysReset"
        /\ UNCHANGED ob
     \/ /\ ~SwapNeeded
        /\ pc' = "sysReset"
        /\ UNCHANGED <<ob, uxStatus>>
  /\ UNCHANGED <<image, nv, ctx, ret, goal, bankAtBootup, blocks>>

prvOptionByteApply == pc = "obLaunch" /\ Restart

(* A failed step before leaves the device running.                         *)
vDoSystemReset ==
  /\ pc = "sysReset"
  /\ \/ uxStatus = "Success" /\ Restart
     \/ /\ uxStatus = "Failed"
        /\ pc' = ret
        /\ UNCHANGED <<flash, ctx, call, bankAtBootup, blocks>>

-----------------------------------------------------------------------------
(* Power loss, reset pin, or watchdog.                                     *)
ResetStrikes == pc \in ResetPoints /\ Restart

(* The idle task no longer runs, so nothing refreshes the watchdog.        *)
WatchdogReset == pc = "halted" /\ Restart

Boot == prvInitializePalContext \/ otaPal_EarlyInit \/ BootVerdict

Client == \/ ClientSetsState
          \/ CreateRefused
          \/ CreateFileForRx
          \/ otaPal_WriteBlock
          \/ otaPal_CloseFile
          \/ otaPal_ActivateNewImage
          \/ ClientResets

(* The steps of a call that has begun.                                     *)
CallProceeds == \/ CreateRecord
                \/ DiscardRecord
                \/ otaPal_ResetDevice
                \/ prvSelectBank
                \/ prvOptionByteApply
                \/ vDoSystemReset

Next == Boot \/ Client \/ CallProceeds \/ ResetStrikes \/ WatchdogReset

Spec == Init /\ [][Next]_vars

(* The processor keeps executing: a boot and a call that has begun go on,  *)
(* and the watchdog bites.  Nothing obliges the client to call.            *)
Fairness == WF_vars(Boot) /\ WF_vars(CallProceeds) /\ WF_vars(WatchdogReset)

FairSpec == Spec /\ Fairness

-----------------------------------------------------------------------------
(* Properties.                                                             *)

(* The bank the option byte selects always holds a complete image: the     *)
(* device never starts an erased or half-written bank (prvEraseBank,       *)
(* prvSelectBank).                                                         *)
BootBankComplete == image[ob] # "partial"

(* The bank the program executes from is never erased or overwritten,      *)
(* whatever fails and wherever a reset strikes: the targets of             *)
(* prvEraseBank and prvWriteToFlash go stale across failed calls.          *)
RunningBankKept ==
  [][image[bankAtBootup] # "partial" => image'[bankAtBootup] # "partial"]_vars

(* No configASSERT of the PAL fails.                                       *)
NoAssertFails == pc # "halted"

(* The application runs an accepted image, or one on trial whose record    *)
(* says so, and then with an accepted image in the other bank: an image    *)
(* that failed never runs as if it had been accepted (comment at           *)
(* app_main.c:233).                                                        *)
RunsTrustedImage ==
  pc = "app" =>
    \/ image[bankAtBootup] = "accepted"
    \/ /\ image[bankAtBootup] = "staged"
       /\ nv = [xPalState |-> "NewImageBooted",
                ulFileTargetBank |-> bankAtBootup]
       /\ image[ulGetOtherBank(bankAtBootup)] = "accepted"

(* An image that was accepted is what boots until an update replaces it:   *)
(* once the state is Accepted, the option byte moves only after another    *)
(* image was activated (ota_pal.h:280).                                    *)
AcceptedIsPermanent == [][xPalState = "Accepted" => ob' = ob]_vars

(* otaPal_EarlyInit finds the image under test in the bank that booted     *)
(* (configASSERT at ota_pal_stm32u5_ntz.c:914).                            *)
SelfTestBootsTarget ==
  pc = "earlyInit" /\ xPalState = "PendingSelfTest" =>
    ulTargetBank = bankAtBootup

(* However a boot goes, the device ends up running the application, unless *)
(* resets strike for ever.                                                 *)
ReachesApp == []<>(pc = "app") \/ []<><<ResetStrikes>>_vars

Update == INSTANCE OtaUpdate WITH
  Bank   <- Banks,
  booted <- ob,
  good   <- {b \in Banks : image[b] = "accepted"},
  trial  <- image[ob] # "accepted"

(* The option byte and the banks follow the update protocol of OtaUpdate.  *)
ImplementsUpdate == Update!ASpec
=============================================================================
