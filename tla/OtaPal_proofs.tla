--------------------------- MODULE OtaPal_proofs ---------------------------
(***************************************************************************)
(* Theorems about OtaPal, for every number of blocks, every verdict and    *)
(* client.  Each theorem names the faults, and the reset points, that it   *)
(* needs excluded.                                                         *)
(***************************************************************************)
EXTENDS OtaPal, TLAPS

(* ulGetOtherBank exchanges the two banks and maps "no bank" to itself.    *)
LEMMA OtherBank ==
  /\ ulGetOtherBank(1) = 2 /\ ulGetOtherBank(2) = 1 /\ ulGetOtherBank(0) = 0
  /\ \A b \in Banks : /\ ulGetOtherBank(b) \in Banks
                      /\ ulGetOtherBank(b) # b
                      /\ ulGetOtherBank(ulGetOtherBank(b)) = b
                      /\ \A c \in Banks : c # b => c = ulGetOtherBank(b)
  BY DEF ulGetOtherBank, Banks

(* The same, value by value.                                               *)
LEMMA OtherBankValues ==
  ulGetOtherBank(1) = 2 /\ ulGetOtherBank(2) = 1 /\ ulGetOtherBank(0) = 0
  BY OtherBank

(* The bank ulGetOtherBank returns is a bank, or 0 for 0.                  *)
LEMMA OtherBankType ==
  ASSUME NEW b \in Banks \cup {0}
  PROVE  ulGetOtherBank(b) \in Banks \cup {0}
  BY OtherBank

-----------------------------------------------------------------------------
(* One call of otaPal_SetPlatformImageState keeps the types.               *)
LEMMA SetStateTypes ==
  ASSUME TypeOK, NEW d, otaPal_SetPlatformImageState(d)
  PROVE  TypeOK'
<1> USE OtaPalAssumption, OtherBank, OtherBankType
    DEF TypeOK, flash, ctx, call, PalStates, ControlPoints, Contents, NoFile,
        Halt, Return, RunsTarget, RunsFallback
<1>1. CASE SetAccepted
  BY <1>1 DEF SetAccepted, AcceptImage, prvDeletePalNvContext, NoRecord
<1>2. CASE SetRejected
  BY <1>2 DEF SetRejected, RejectBooted, DiscardTarget, Failed, Erasable,
     prvEraseBank
<1>3. CASE SetTesting
  BY <1>3 DEF SetTesting
<1>4. CASE SetAborted
  BY <1>4 DEF SetAborted, DiscardTarget, Erasable, prvEraseBank
<1>5. CASE SetUnknown
  BY <1>5 DEF SetUnknown
<1> QED BY <1>1, <1>2, <1>3, <1>4, <1>5 DEF otaPal_SetPlatformImageState

(* One step keeps the types.                                               *)
LEMMA TypeStep ==
  ASSUME TypeOK, [Next]_vars
  PROVE  TypeOK'
<1> USE OtaPalAssumption, OtherBank, OtherBankType
    DEF TypeOK, flash, ctx, call, PalStates, ControlPoints, Contents, NoFile,
        Halt
<1>1. CASE prvInitializePalContext
  BY <1>1 DEF prvInitializePalContext
<1>2. CASE EarlyInitSelfTest
  BY <1>2 DEF EarlyInitSelfTest, prvWritePalNvContext
<1>3. CASE EarlyInitWatchdog
  BY <1>3 DEF EarlyInitWatchdog, prvWritePalNvContext, Failed
<1>4. CASE EarlyInitReverted
  BY <1>4 DEF EarlyInitReverted, prvDeletePalNvContext, NoRecord
<1>5. CASE EarlyInitErase
  BY <1>5 DEF EarlyInitErase, Erasable, prvEraseBank
<1>6. CASE EarlyInitDefault
  BY <1>6 DEF EarlyInitDefault
<1>7. CASE BootVerdict
  BY <1>7, SetStateTypes DEF BootVerdict
<1>8. CASE ClientSetsState
  BY <1>8, SetStateTypes DEF ClientSetsState
<1>9. CASE CreateRefused
  BY <1>9 DEF CreateRefused, StateAtCreate
<1>10. CASE CreateFileForRx
  BY <1>10 DEF CreateFileForRx, prvEraseBank
<1>11. CASE otaPal_WriteBlock
  BY <1>11 DEF otaPal_WriteBlock, prvWriteToFlash
<1>12. CASE otaPal_CloseFile
  BY <1>12 DEF otaPal_CloseFile
<1>13. CASE otaPal_ActivateNewImage
  BY <1>13 DEF otaPal_ActivateNewImage
<1>14. CASE ClientResets
  BY <1>14 DEF ClientResets
<1>15. CASE CreateRecord
  BY <1>15 DEF CreateRecord, prvDeletePalNvContext, NoRecord
<1>16. CASE DiscardRecord
  BY <1>16 DEF DiscardRecord, prvDeletePalNvContext, NoRecord
<1>17. CASE otaPal_ResetDevice
  <2>1. CASE ResetSelfTest
    BY <2>1 DEF ResetSelfTest, prvWritePalNvContext, Failed, Status
  <2>2. CASE ResetPendingSelfTest
    BY <2>2 DEF ResetPendingSelfTest, prvWritePalNvContext, Status
  <2>3. CASE ResetSelfTestFailed
    BY <2>3 DEF ResetSelfTestFailed, prvDeletePalNvContext, NoRecord,
       Status
  <2>4. CASE ResetOther
    BY <2>4 DEF ResetOther
  <2> QED BY <1>17, <2>1, <2>2, <2>3, <2>4 DEF otaPal_ResetDevice
<1>18. CASE prvSelectBank
  BY <1>18 DEF prvSelectBank, SwapNeeded
<1>19. CASE prvOptionByteApply
  BY <1>19 DEF prvOptionByteApply, Restart
<1>20. CASE vDoSystemReset
  BY <1>20 DEF vDoSystemReset, Restart
<1>21. CASE ResetStrikes
  BY <1>21 DEF ResetStrikes, Restart
<1>22. CASE WatchdogReset
  BY <1>22 DEF WatchdogReset, Restart
<1>23. CASE UNCHANGED vars
  BY <1>23 DEF vars
<1> QED BY <1>1, <1>2, <1>3, <1>4, <1>5, <1>6, <1>7, <1>8, <1>9, <1>10,
           <1>11, <1>12, <1>13, <1>14, <1>15, <1>16, <1>17, <1>18, <1>19,
           <1>20, <1>21, <1>22, <1>23
        DEF Next, Boot, otaPal_EarlyInit, Client, CallProceeds

(* Every variable keeps its type, whatever fails and wherever a reset      *)
(* strikes.                                                                *)
THEOREM TypeCorrect == Spec => []TypeOK
<1>1. Init => TypeOK
  BY OtaPalAssumption DEF Init, TypeOK, Banks, Contents, NoRecord, PalStates,
     ControlPoints, NoFile
<1>2. TypeOK /\ [Next]_vars => TypeOK'
  BY TypeStep
<1> QED BY <1>1, <1>2, PTL DEF Spec

-----------------------------------------------------------------------------
(* Every change of a bank is an erasure or a write of a bank that is not   *)
(* running, or a verdict, which leaves its content complete.               *)
BankChange ==
  \/ image' = image
  \/ \E b \in Banks, v \in Contents :
       /\ image' = [image EXCEPT ![b] = v]
       /\ b # bankAtBootup \/ v # "partial"

(* Every call of otaPal_SetPlatformImageState is such a change.            *)
LEMMA SetStateBankChange ==
  ASSUME TypeOK, NEW d, otaPal_SetPlatformImageState(d)
  PROVE  BankChange
<1> USE DEF TypeOK, BankChange, Contents, Halt, Return, flash
<1>1. CASE SetAccepted
  BY <1>1 DEF SetAccepted, AcceptImage
<1>2. ASSUME NEW pending, NEW end, DiscardTarget(pending, end)
      PROVE  BankChange
  BY <1>2 DEF DiscardTarget, Erasable, prvEraseBank
<1>3. CASE SetRejected
  BY <1>2, <1>3 DEF SetRejected, RejectBooted, Failed
<1>4. CASE SetTesting
  BY <1>4 DEF SetTesting
<1>5. CASE SetAborted
  BY <1>2, <1>5 DEF SetAborted
<1>6. CASE SetUnknown
  BY <1>6 DEF SetUnknown
<1> QED BY <1>1, <1>3, <1>4, <1>5, <1>6 DEF otaPal_SetPlatformImageState

(* Every step is such a change.                                            *)
LEMMA StepBankChange ==
  ASSUME TypeOK, [Next]_vars
  PROVE  BankChange
<1> USE DEF TypeOK, BankChange, Contents, Halt, flash
<1>1. CASE Boot
  <2>1. CASE prvInitializePalContext \/ EarlyInitSelfTest \/ EarlyInitReverted
             \/ EarlyInitDefault
    BY <2>1 DEF prvInitializePalContext, EarlyInitSelfTest,
       EarlyInitReverted, EarlyInitDefault
  <2>2. CASE EarlyInitWatchdog
    BY <2>2 DEF EarlyInitWatchdog, Failed
  <2>3. CASE EarlyInitErase
    BY <2>3 DEF EarlyInitErase, Erasable, prvEraseBank
  <2>4. CASE BootVerdict
    BY <2>4, SetStateBankChange DEF BootVerdict
  <2> QED BY <1>1, <2>1, <2>2, <2>3, <2>4 DEF Boot, otaPal_EarlyInit
<1>2. CASE Client
  <2>1. CASE ClientSetsState
    BY <2>1, SetStateBankChange DEF ClientSetsState
  <2>2. CASE CreateFileForRx
    BY <2>2, OtherBank DEF CreateFileForRx, prvEraseBank
  <2>3. CASE otaPal_WriteBlock
    <3>1. CASE image' = image
      BY <3>1
    <3>2. CASE image' # image
      <4>1. /\ ulTargetBank # bankAtBootup
            /\ image' = [image EXCEPT ![ulTargetBank] =
                           IF blocks = 1 THEN "staged" ELSE "partial"]
        BY <2>3, <3>2 DEF otaPal_WriteBlock, prvWriteToFlash, RunsTarget
      <4>2. ulTargetBank \in Banks
        BY <3>2, <4>1
      <4> QED BY <4>1, <4>2
    <3> QED BY <3>1, <3>2
  <2>4. CASE CreateRefused \/ otaPal_CloseFile \/ otaPal_ActivateNewImage
             \/ ClientResets
    BY <2>4 DEF CreateRefused, otaPal_CloseFile, otaPal_ActivateNewImage,
       ClientResets
  <2> QED BY <1>2, <2>1, <2>2, <2>3, <2>4 DEF Client
<1>3. CASE CallProceeds
  <2>1. CASE CreateRecord \/ DiscardRecord
    BY <2>1 DEF CreateRecord, DiscardRecord
  <2>2. CASE otaPal_ResetDevice
    BY <2>2 DEF otaPal_ResetDevice, ResetSelfTest, ResetPendingSelfTest,
       ResetSelfTestFailed, ResetOther, Failed
  <2>3. CASE prvSelectBank \/ prvOptionByteApply \/ vDoSystemReset
    BY <2>3 DEF prvSelectBank, prvOptionByteApply, vDoSystemReset, Restart
  <2> QED BY <1>3, <2>1, <2>2, <2>3 DEF CallProceeds
<1>4. CASE ResetStrikes \/ WatchdogReset
  BY <1>4 DEF ResetStrikes, WatchdogReset, Restart
<1>5. CASE UNCHANGED vars
  BY <1>5 DEF vars
<1> QED BY <1>1, <1>2, <1>3, <1>4, <1>5 DEF Next

(* Whatever fails and wherever a reset strikes, the bank the program       *)
(* executes from stays complete.                                           *)
THEOREM RunningBankNeverDestroyed == Spec => RunningBankKept
<1>1. ASSUME TypeOK, [Next]_vars
      PROVE  image[bankAtBootup] # "partial" => image'[bankAtBootup] # "partial"
  BY <1>1, StepBankChange DEF BankChange, TypeOK
<1>2. TypeOK /\ [Next]_vars =>
        [image[bankAtBootup] # "partial" => image'[bankAtBootup] # "partial"]_vars
  BY <1>1
<1> QED BY <1>2, TypeCorrect, PTL DEF Spec, RunningBankKept

-----------------------------------------------------------------------------
(* The option byte never selects an incomplete image.                      *)
(*                                                                         *)
(* BootBankComplete is not inductive.  Whether a bank may be mapped is     *)
(* decided from the RAM context, and after a reset from the record, so the *)
(* invariant says of both that the bank they would go back to is complete, *)
(* and of the record that it names the running bank only while the image   *)
(* in it is under judgement: otherwise it would survive the erasure of the *)
(* bank it goes back to.                                                   *)

UnderJudgement == {"PendingSelfTest", "NewImageBooted", "NewImageWdtReset",
                   "SelfTestFailed"}

Receiving == {"FileOpen", "PendingActivation"}

FallbackComplete(b) == b \in Banks => image[ulGetOtherBank(b)] # "partial"

RecordOK == nv = NoRecord \/ /\ nv.xPalState \in UnderJudgement
                             /\ nv.ulFileTargetBank \in Banks

RecordNamesRunningBank ==
  pc # "reset" /\ nv # NoRecord /\ nv.ulFileTargetBank = bankAtBootup =>
    /\ ulTargetBank = bankAtBootup
    /\ \/ xPalState \in UnderJudgement \cup {"Invalid"}
       \/ pc \in {"earlyErase", "halted"}

ReceivingOK ==
  xPalState \in Receiving =>
    /\ ulTargetBank \in Banks
    /\ ulTargetBank # bankAtBootup
    /\ blocks = 0 => image[ulTargetBank] # "partial"

PendingSelfTestOK ==
  xPalState = "PendingSelfTest" =>
    \/ pc \in {"earlyInit", "halted"}
    \/ /\ pc \in {"resetDevice", "selectBank", "obLaunch"}
       /\ ulTargetBank \in Banks
       /\ ulTargetBank # bankAtBootup
       /\ image[ulTargetBank] # "partial"
       /\ pc = "selectBank" => ulPendingBank = ulTargetBank

WdtResetOK ==
  xPalState = "NewImageWdtReset" =>
    /\ pc \in {"earlyInit", "selectBank", "obLaunch", "sysReset"}
    /\ pc \in {"selectBank", "sysReset"} => uxStatus = "Success"

SwapOK ==
  pc = "selectBank" /\ SwapNeeded => image[ulPendingBank] # "partial"

BootInv ==
  /\ TypeOK
  /\ BootBankComplete
  /\ pc # "obLaunch" => bankAtBootup = ob
  /\ pc = "reset" => xPalState = "NotInitialized"
  /\ pc = "earlyErase" => xPalState = "Rejected"
  /\ xPalState \in UnderJudgement => ulTargetBank \in Banks
  /\ FallbackComplete(nv.ulFileTargetBank)
  /\ FallbackComplete(ulTargetBank)
  /\ RecordOK
  /\ RecordNamesRunningBank
  /\ ReceivingOK
  /\ PendingSelfTestOK
  /\ WdtResetOK
  /\ SwapOK

(* Writing or erasing a bank that is not the running one leaves the        *)
(* running image, and so the fallback of every other target, complete.     *)
LEMMA InactiveBankWrite ==
  ASSUME TypeOK, BootBankComplete, bankAtBootup = ob,
         NEW b \in Banks, b # bankAtBootup, NEW v,
         image' = [image EXCEPT ![b] = v]
  PROVE  /\ image'[bankAtBootup] # "partial"
         /\ image'[b] = v
         /\ \A c \in Banks : c # bankAtBootup =>
              image'[ulGetOtherBank(c)] # "partial"
<1>1. bankAtBootup \in Banks /\ image \in [Banks -> Contents]
  BY DEF TypeOK
<1>2. image'[bankAtBootup] # "partial" /\ image'[b] = v
  BY <1>1 DEF BootBankComplete
<1>3. \A c \in Banks : c # bankAtBootup => ulGetOtherBank(c) = bankAtBootup
  BY <1>1, OtherBank
<1> QED BY <1>2, <1>3

(* Judging an image bad leaves it as complete as it was.                   *)
LEMMA FailedComplete ==
  ASSUME TypeOK, NEW b, image' = Failed(b), NEW c \in Banks
  PROVE  image'[c] = "partial" <=> image[c] = "partial"
  BY DEF TypeOK, Failed

(* The erasure of the target of a rejected or aborted update.              *)
LEMMA DiscardTargetInv ==
  ASSUME Faults \subseteq {"nvOpen", "nvWrite", "nvDelete"},
         BootInv, pc \in {"verdict", "app"}, TypeOK',
         NEW pending, NEW end, DiscardTarget(pending, end)
  PROVE  BootInv'
<1>1. CASE ~Erasable(ulTargetBank) /\ Halt
  BY <1>1 DEF Halt, BootInv, flash, ctx, call, BootBankComplete,
     FallbackComplete, RecordOK, RecordNamesRunningBank, ReceivingOK,
     PendingSelfTestOK, WdtResetOK, SwapOK
<1>2. CASE Erasable(ulTargetBank)
  <2>1. /\ ulTargetBank \in Banks /\ ulTargetBank # bankAtBootup
        /\ bankAtBootup \in Banks
    BY <1>2 DEF Erasable, BootInv, TypeOK
  <2>2. /\ image' = [image EXCEPT ![ulTargetBank] = "partial"]
        /\ pc' \in {"discardNv", "app"} /\ blocks' = NoFile
        /\ UNCHANGED <<ob, nv, bankAtBootup, xPalState, ulTargetBank>>
    BY <1>2 DEF DiscardTarget, prvEraseBank
  <2>3. bankAtBootup = ob /\ TypeOK /\ BootBankComplete
    BY DEF BootInv
  <2>4. /\ image'[bankAtBootup] # "partial"
        /\ \A c \in Banks : c # bankAtBootup =>
             image'[ulGetOtherBank(c)] # "partial"
    BY <2>1, <2>2, <2>3, InactiveBankWrite
  <2>5. BootBankComplete'
    BY <2>2, <2>3, <2>4 DEF BootBankComplete
  <2>6. FallbackComplete(ulTargetBank)'
    BY <2>1, <2>2, <2>4 DEF FallbackComplete
  <2>7. nv.ulFileTargetBank \in Banks => nv.ulFileTargetBank # bankAtBootup
    BY <2>1 DEF BootInv, RecordNamesRunningBank, NoRecord, Banks
  <2>8. FallbackComplete(nv.ulFileTargetBank)'
    BY <2>2, <2>4, <2>7 DEF FallbackComplete
  <2>9. RecordOK' /\ RecordNamesRunningBank'
    BY <2>1, <2>2 DEF BootInv, RecordOK, RecordNamesRunningBank
  <2>10. blocks' # 0
    BY <2>2, OtaPalAssumption DEF NoFile
  <2>11. ReceivingOK'
    BY <2>1, <2>2, <2>10 DEF ReceivingOK
  <2>12. PendingSelfTestOK' /\ WdtResetOK' /\ SwapOK'
    BY <2>2 DEF BootInv, PendingSelfTestOK, WdtResetOK, SwapOK
  <2> QED BY <2>2, <2>3, <2>5, <2>6, <2>8, <2>9, <2>11, <2>12 DEF BootInv
<1> QED BY <1>1, <1>2 DEF DiscardTarget

(* The rejection of the booted image, which resets into the other bank.    *)
LEMMA RejectBootedInv ==
  ASSUME BootInv, pc \in {"verdict", "app"}, TypeOK', RejectBooted,
         xPalState \in UnderJudgement
  PROVE  BootInv'
<1>1. /\ pc' = "resetDevice" /\ xPalState' = "SelfTestFailed"
      /\ image' = Failed(ulTargetBank)
      /\ UNCHANGED <<ob, nv, bankAtBootup, ulTargetBank, blocks>>
  BY DEF RejectBooted
<1>2. \A c \in Banks : image'[c] = "partial" <=> image[c] = "partial"
  BY <1>1, FailedComplete DEF BootInv
<1>3. BootBankComplete'
  BY <1>1, <1>2 DEF BootInv, BootBankComplete, TypeOK
<1>4. \A b \in Banks : ulGetOtherBank(b) \in Banks
  BY OtherBank
<1>5. FallbackComplete(nv.ulFileTargetBank)' /\ FallbackComplete(ulTargetBank)'
  BY <1>1, <1>2, <1>4 DEF BootInv, FallbackComplete
<1>6. RecordOK' /\ RecordNamesRunningBank'
  BY <1>1 DEF BootInv, RecordOK, RecordNamesRunningBank, UnderJudgement
<1>7. ReceivingOK' /\ PendingSelfTestOK' /\ WdtResetOK' /\ SwapOK'
  BY <1>1 DEF ReceivingOK, PendingSelfTestOK, WdtResetOK, SwapOK, Receiving
<1> QED
  BY <1>1, <1>3, <1>5, <1>6, <1>7 DEF BootInv, UnderJudgement

(* Setting the state of the image keeps BootInv; every call is made from   *)
(* the boot verdict or from the application.                               *)
LEMMA SetStateBootInv ==
  ASSUME Faults \subseteq {"nvOpen", "nvWrite", "nvDelete"},
         BootInv, pc \in {"verdict", "app"}, TypeOK',
         NEW d, otaPal_SetPlatformImageState(d)
  PROVE  BootInv'
<1> USE OtaPalAssumption, OtherBankValues
    DEF Banks, BootInv, TypeOK, flash, ctx, call, PalStates, ControlPoints, Contents,
        NoFile, Halt, Return, RunsTarget, RunsFallback, BootBankComplete,
        UnderJudgement, Receiving, FallbackComplete, RecordOK,
        RecordNamesRunningBank, ReceivingOK, PendingSelfTestOK, WdtResetOK,
        SwapOK, SwapNeeded
<1>1. CASE SetAccepted
  BY <1>1 DEF SetAccepted, AcceptImage, prvDeletePalNvContext, NoRecord
<1>2. CASE SetRejected
  <2>1. CASE xPalState \in {"PendingSelfTest", "NewImageBooted"} /\ RejectBooted
    BY <2>1, RejectBootedInv
  <2>2. CASE \E pending, end : DiscardTarget(pending, end)
    BY <2>2, DiscardTargetInv
  <2>3. CASE Halt \/ Return
    BY <2>3
  <2> QED BY <1>2, <2>1, <2>2, <2>3 DEF SetRejected
<1>3. CASE SetTesting
  BY <1>3 DEF SetTesting
<1>4. CASE SetAborted
  <2>1. CASE \E pending, end : DiscardTarget(pending, end)
    BY <2>1, DiscardTargetInv
  <2>2. CASE Halt \/ Return
    BY <2>2
  <2>3. CASE /\ pc' = "app"
             /\ xPalState = "NewImageBooted"
             /\ UNCHANGED <<flash, call, bankAtBootup, xPalState,
                            ulTargetBank, blocks>>
    BY <2>3
  <2> QED BY <1>4, <2>1, <2>2, <2>3 DEF SetAborted
<1>5. CASE SetUnknown
  BY <1>5 DEF SetUnknown
<1> QED BY <1>1, <1>2, <1>3, <1>4, <1>5 DEF otaPal_SetPlatformImageState

(* A step that halts keeps BootInv, whatever assertion failed.             *)
LEMMA HaltInv ==
  ASSUME BootInv, pc \notin {"reset", "obLaunch"}, TypeOK', Halt,
         xPalState # "NewImageWdtReset"
  PROVE  BootInv'
BY DEF Halt, BootInv, flash, ctx, call, BootBankComplete, FallbackComplete,
   RecordOK, RecordNamesRunningBank, ReceivingOK, PendingSelfTestOK,
   WdtResetOK, SwapOK

(* The erasure of the bank a boot went back from.                          *)
LEMMA EarlyInitEraseInv ==
  ASSUME Faults \subseteq {"nvOpen", "nvWrite", "nvDelete"},
         BootInv, TypeOK', EarlyInitErase
  PROVE  BootInv'
<1>1. pc = "earlyErase" /\ xPalState = "Rejected"
  BY DEF EarlyInitErase, BootInv
<1>2. CASE Halt
  BY <1>1, <1>2, HaltInv
<1>3. CASE ~Halt
  <2>1. /\ ulTargetBank \in Banks /\ ulTargetBank # bankAtBootup
        /\ image' = [image EXCEPT ![ulTargetBank] = "partial"]
        /\ pc' = "verdict"
        /\ UNCHANGED <<ob, nv, bankAtBootup, xPalState, ulTargetBank>>
    BY <1>3 DEF EarlyInitErase, Erasable, prvEraseBank, ctx
  <2>2. bankAtBootup = ob /\ TypeOK /\ BootBankComplete /\ bankAtBootup \in Banks
    BY <1>1 DEF BootInv, TypeOK
  <2>3. /\ image'[bankAtBootup] # "partial"
        /\ \A c \in Banks : c # bankAtBootup =>
             image'[ulGetOtherBank(c)] # "partial"
    BY <2>1, <2>2, InactiveBankWrite
  <2>4. BootBankComplete'
    BY <2>1, <2>2, <2>3 DEF BootBankComplete
  <2>5. FallbackComplete(ulTargetBank)'
    BY <2>1, <2>3 DEF FallbackComplete
  <2>6. nv.ulFileTargetBank \in Banks => nv.ulFileTargetBank # bankAtBootup
    BY <1>1, <2>1 DEF BootInv, RecordNamesRunningBank, NoRecord, Banks
  <2>7. FallbackComplete(nv.ulFileTargetBank)'
    BY <2>1, <2>3, <2>6 DEF FallbackComplete
  <2>8. RecordOK' /\ RecordNamesRunningBank'
    BY <1>1, <2>1 DEF BootInv, RecordOK, RecordNamesRunningBank
  <2>9. ReceivingOK' /\ PendingSelfTestOK' /\ WdtResetOK' /\ SwapOK'
    BY <1>1, <2>1 DEF ReceivingOK, PendingSelfTestOK, WdtResetOK, SwapOK,
       Receiving
  <2> QED
    BY <1>1, <2>1, <2>2, <2>4, <2>5, <2>7, <2>8, <2>9
       DEF BootInv, UnderJudgement
<1> QED BY <1>2, <1>3

(* Opening a file erases the inactive bank.  A record that survived an     *)
(* earlier failure does not name the running bank in these states.         *)
LEMMA CreateFileForRxInv ==
  ASSUME Faults \subseteq {"nvOpen", "nvWrite", "nvDelete"},
         BootInv, TypeOK', CreateFileForRx
  PROVE  BootInv'
<1> DEFINE b == ulGetOtherBank(bankAtBootup)
<1>1. /\ pc = "app" /\ xPalState \in {"Ready", "Accepted", "Rejected"}
      /\ TypeOK /\ bankAtBootup = ob /\ BootBankComplete
      /\ bankAtBootup \in Banks
  BY DEF CreateFileForRx, StateAtCreate, BootInv, TypeOK
<1>2. b \in Banks /\ b # bankAtBootup
  BY <1>1, OtherBank
<1>3. /\ image' = [image EXCEPT ![b] = "partial"]
      /\ ulTargetBank' = b /\ xPalState' = "FileOpen"
      /\ blocks' = NumBlocks /\ pc' = "createNv"
      /\ UNCHANGED <<ob, nv, bankAtBootup>>
  BY DEF CreateFileForRx, prvEraseBank
<1> HIDE DEF b
<1>4. /\ image'[bankAtBootup] # "partial"
      /\ \A c \in Banks : c # bankAtBootup =>
           image'[ulGetOtherBank(c)] # "partial"
  BY <1>1, <1>2, <1>3, InactiveBankWrite
<1>5. BootBankComplete' /\ FallbackComplete(ulTargetBank)'
  BY <1>1, <1>2, <1>3, <1>4 DEF BootBankComplete, FallbackComplete
<1>6. nv = NoRecord \/ nv.ulFileTargetBank # bankAtBootup
  BY <1>1 DEF BootInv, RecordNamesRunningBank, UnderJudgement
<1>7. FallbackComplete(nv.ulFileTargetBank)'
  BY <1>1, <1>3, <1>4, <1>6 DEF FallbackComplete, NoRecord, Banks
<1>8. RecordOK' /\ RecordNamesRunningBank'
  BY <1>3, <1>6 DEF BootInv, RecordOK, RecordNamesRunningBank
<1>9. ReceivingOK'
  BY <1>2, <1>3, OtaPalAssumption DEF ReceivingOK
<1>10. PendingSelfTestOK' /\ WdtResetOK' /\ SwapOK'
  BY <1>3 DEF PendingSelfTestOK, WdtResetOK, SwapOK
<1> QED
  BY <1>1, <1>3, <1>5, <1>7, <1>8, <1>9, <1>10 DEF BootInv, UnderJudgement

(* A block goes into the open target bank, never into the running one.     *)
LEMMA WriteBlockInv ==
  ASSUME BootInv, TypeOK', otaPal_WriteBlock
  PROVE  BootInv'
<1>1. pc = "app" /\ xPalState # "NewImageWdtReset"
  BY DEF otaPal_WriteBlock, BootInv, WdtResetOK
<1>2. CASE Halt
  BY <1>1, <1>2, HaltInv
<1>3. CASE ~Halt
  <2> DEFINE v == IF blocks = 1 THEN "staged" ELSE "partial"
  <2>1. /\ xPalState = "FileOpen" /\ ulTargetBank # bankAtBootup
        /\ blocks \in 1 .. NumBlocks /\ blocks' = blocks - 1
        /\ image' = [image EXCEPT ![ulTargetBank] = v]
        /\ UNCHANGED <<pc, ob, nv, bankAtBootup, xPalState, ulTargetBank>>
    BY <1>3 DEF otaPal_WriteBlock, prvWriteToFlash, RunsTarget, ctx
  <2>2. /\ bankAtBootup = ob /\ TypeOK /\ BootBankComplete
        /\ bankAtBootup \in Banks /\ ulTargetBank \in Banks
    BY <1>1, <2>1 DEF BootInv, TypeOK, ReceivingOK, Receiving
  <2>3. blocks' = 0 => v = "staged"
    BY <2>1, OtaPalAssumption
  <2> HIDE DEF v
  <2>4. /\ image'[bankAtBootup] # "partial" /\ image'[ulTargetBank] = v
        /\ \A c \in Banks : c # bankAtBootup =>
             image'[ulGetOtherBank(c)] # "partial"
    BY <2>1, <2>2, InactiveBankWrite
  <2>5. BootBankComplete' /\ FallbackComplete(ulTargetBank)'
    BY <2>1, <2>2, <2>4 DEF BootBankComplete, FallbackComplete
  <2>6. nv = NoRecord \/ nv.ulFileTargetBank # bankAtBootup
    BY <1>1, <2>1 DEF BootInv, RecordNamesRunningBank
  <2>7. FallbackComplete(nv.ulFileTargetBank)'
    BY <2>1, <2>2, <2>4, <2>6 DEF FallbackComplete, NoRecord, Banks
  <2>8. RecordOK' /\ RecordNamesRunningBank'
    BY <2>1, <2>6 DEF BootInv, RecordOK, RecordNamesRunningBank
  <2>9. ReceivingOK'
    BY <2>1, <2>2, <2>3, <2>4 DEF ReceivingOK
  <2>10. PendingSelfTestOK' /\ WdtResetOK' /\ SwapOK'
    BY <1>1, <2>1 DEF PendingSelfTestOK, WdtResetOK, SwapOK
  <2> QED
    BY <1>1, <2>1, <2>2, <2>5, <2>7, <2>8, <2>9, <2>10
       DEF BootInv, UnderJudgement
<1> QED BY <1>2, <1>3

(* A reset during the self test goes back to the fallback of the target.   *)
LEMMA ResetSelfTestInv ==
  ASSUME BootInv, TypeOK', pc = "resetDevice", ResetSelfTest
  PROVE  BootInv'
<1>1. CASE Halt
  BY <1>1, HaltInv DEF ResetSelfTest
<1>2. CASE ~Halt
  <2>1. /\ xPalState = "NewImageBooted" /\ xPalState' = "SelfTestFailed"
        /\ ulTargetBank = bankAtBootup /\ image' = Failed(ulTargetBank)
        /\ ulPendingBank' = ulGetOtherBank(ulTargetBank)
        /\ pc' = "selectBank"
        /\ UNCHANGED <<ob, bankAtBootup, ulTargetBank>>
        /\ nv' \in {nv, [xPalState |-> "SelfTestFailed",
                         ulFileTargetBank |-> ulTargetBank]}
    BY <1>2 DEF ResetSelfTest, RunsTarget, prvWritePalNvContext
  <2>2. bankAtBootup = ob /\ ulTargetBank \in Banks
    BY <2>1 DEF BootInv, UnderJudgement
  <2>3. \A c \in Banks : image'[c] = "partial" <=> image[c] = "partial"
    BY <2>1, FailedComplete DEF BootInv
  <2>4. \A b \in Banks : ulGetOtherBank(b) \in Banks
    BY OtherBank
  <2>5. BootBankComplete' /\ FallbackComplete(ulTargetBank)'
    BY <2>1, <2>2, <2>3, <2>4 DEF BootInv, BootBankComplete, FallbackComplete
  <2>6. FallbackComplete(nv.ulFileTargetBank)'
    BY <2>1, <2>2, <2>3, <2>4 DEF BootInv, FallbackComplete
  <2>7. RecordOK' /\ RecordNamesRunningBank'
    BY <2>1, <2>2 DEF BootInv, RecordOK, RecordNamesRunningBank, UnderJudgement
  <2>8. SwapOK'
    BY <2>1, <2>2, <2>5 DEF SwapOK, FallbackComplete
  <2>9. ReceivingOK' /\ PendingSelfTestOK' /\ WdtResetOK'
    BY <2>1 DEF ReceivingOK, PendingSelfTestOK, WdtResetOK, Receiving
  <2> QED
    BY <2>1, <2>2, <2>5, <2>6, <2>7, <2>8, <2>9 DEF BootInv
<1> QED BY <1>1, <1>2

(* Activating a received image selects its bank, which is complete.        *)
LEMMA ResetPendingSelfTestInv ==
  ASSUME BootInv, TypeOK', pc = "resetDevice", ResetPendingSelfTest
  PROVE  BootInv'
<1>1. CASE Halt
  BY <1>1, HaltInv DEF ResetPendingSelfTest
<1>2. CASE ~Halt
  <2>1. /\ xPalState = "PendingSelfTest" /\ pc' = "selectBank"
        /\ ulPendingBank' = ulTargetBank
        /\ UNCHANGED <<image, ob, bankAtBootup, xPalState, ulTargetBank>>
        /\ nv' \in {nv, [xPalState |-> "PendingSelfTest",
                         ulFileTargetBank |-> ulTargetBank]}
    BY <1>2 DEF ResetPendingSelfTest, prvWritePalNvContext
  <2>2. /\ bankAtBootup = ob /\ ulTargetBank \in Banks
        /\ ulTargetBank # bankAtBootup /\ image[ulTargetBank] # "partial"
    BY <2>1 DEF BootInv, PendingSelfTestOK
  <2>3. BootBankComplete' /\ FallbackComplete(ulTargetBank)'
    BY <2>1, <2>2 DEF BootInv, BootBankComplete, FallbackComplete
  <2>4. FallbackComplete(nv.ulFileTargetBank)'
    BY <2>1, <2>2 DEF BootInv, FallbackComplete
  <2>5. RecordOK'
    BY <2>1, <2>2 DEF BootInv, RecordOK, UnderJudgement
  <2>6. RecordNamesRunningBank'
    BY <2>1, <2>2 DEF BootInv, RecordNamesRunningBank, UnderJudgement
  <2>7. SwapOK' /\ PendingSelfTestOK'
    BY <2>1, <2>2 DEF SwapOK, PendingSelfTestOK
  <2>8. ReceivingOK' /\ WdtResetOK'
    BY <2>1 DEF ReceivingOK, WdtResetOK, Receiving
  <2> QED
    BY <2>1, <2>2, <2>3, <2>4, <2>5, <2>6, <2>7, <2>8 DEF BootInv
<1> QED BY <1>1, <1>2

(* A failed self test goes back to the fallback and forgets the record.    *)
LEMMA ResetSelfTestFailedInv ==
  ASSUME Faults \subseteq {"nvOpen", "nvWrite", "nvDelete"},
         BootInv, TypeOK', pc = "resetDevice", ResetSelfTestFailed
  PROVE  BootInv'
<1>1. /\ xPalState = "SelfTestFailed" /\ pc' = "selectBank"
      /\ ulPendingBank' = ulGetOtherBank(ulTargetBank)
      /\ UNCHANGED <<image, ob, bankAtBootup, xPalState, ulTargetBank>>
      /\ nv' \in {nv, NoRecord}
  BY DEF ResetSelfTestFailed, prvDeletePalNvContext
<1>2. bankAtBootup = ob /\ ulTargetBank \in Banks
  BY <1>1 DEF BootInv, UnderJudgement
<1>3. BootBankComplete' /\ FallbackComplete(ulTargetBank)'
  BY <1>1 DEF BootInv, BootBankComplete, FallbackComplete
<1>4. FallbackComplete(nv.ulFileTargetBank)'
  BY <1>1 DEF BootInv, FallbackComplete, NoRecord, Banks
<1>5. RecordOK' /\ RecordNamesRunningBank'
  BY <1>1 DEF BootInv, RecordOK, RecordNamesRunningBank, UnderJudgement
<1>6. SwapOK'
  BY <1>1, <1>2, <1>3 DEF SwapOK, FallbackComplete
<1>7. ReceivingOK' /\ PendingSelfTestOK' /\ WdtResetOK'
  BY <1>1 DEF ReceivingOK, PendingSelfTestOK, WdtResetOK, Receiving
<1> QED
  BY <1>1, <1>2, <1>3, <1>4, <1>5, <1>6, <1>7 DEF BootInv

(* Every other reset goes back to the fallback of the target, if any.      *)
LEMMA ResetOtherInv ==
  ASSUME BootInv, TypeOK', pc = "resetDevice", ResetOther
  PROVE  BootInv'
<1>1. /\ xPalState # "PendingSelfTest" /\ pc' = "selectBank"
      /\ UNCHANGED <<image, ob, nv, bankAtBootup, xPalState, ulTargetBank,
                     blocks>>
  BY DEF ResetOther, flash
<1>2. xPalState # "NewImageWdtReset" /\ bankAtBootup = ob
  BY DEF BootInv, WdtResetOK
<1>3. ulPendingBank' = ulGetOtherBank(ulTargetBank)
  BY <1>2 DEF ResetOther
<1>4. BootBankComplete' /\ FallbackComplete(ulTargetBank)'
      /\ FallbackComplete(nv.ulFileTargetBank)'
  BY <1>1 DEF BootInv, BootBankComplete, FallbackComplete
<1>5. RecordOK' /\ RecordNamesRunningBank' /\ ReceivingOK'
  BY <1>1 DEF BootInv, RecordOK, RecordNamesRunningBank, ReceivingOK
<1>6. ulTargetBank \in Banks \/ ulPendingBank' = 0
  BY <1>3, OtherBankValues DEF BootInv, TypeOK, Banks
<1>7. SwapOK'
  BY <1>1, <1>3, <1>4, <1>6 DEF SwapOK, SwapNeeded, FallbackComplete
<1>8. PendingSelfTestOK' /\ WdtResetOK'
  BY <1>1, <1>2 DEF PendingSelfTestOK, WdtResetOK
<1> QED
  BY <1>1, <1>2, <1>4, <1>5, <1>7, <1>8 DEF BootInv

(* One step keeps BootInv, if the record can be read and erasing works.    *)
LEMMA BootInvStep ==
  ASSUME Faults \subseteq {"nvOpen", "nvWrite", "nvDelete"},
         BootInv, [Next]_vars
  PROVE  BootInv'
<1>0. TypeOK'
  BY TypeStep DEF BootInv
<1> USE <1>0, OtaPalAssumption, OtherBankValues
    DEF Banks, BootInv, TypeOK, flash, ctx, call, PalStates, ControlPoints, Contents,
        NoFile, Halt, BootBankComplete, UnderJudgement, Receiving,
        FallbackComplete, RecordOK, RecordNamesRunningBank, ReceivingOK,
        PendingSelfTestOK, WdtResetOK, SwapOK, SwapNeeded, RunsTarget,
        RunsFallback
<1>1. CASE prvInitializePalContext
  BY <1>1 DEF prvInitializePalContext, NoRecord
<1>2. CASE EarlyInitSelfTest
  BY <1>2 DEF EarlyInitSelfTest, prvWritePalNvContext, NoRecord
<1>3. CASE EarlyInitWatchdog
  BY <1>3 DEF EarlyInitWatchdog, prvWritePalNvContext, Failed, NoRecord
<1>4. CASE EarlyInitReverted
  BY <1>4 DEF EarlyInitReverted, prvDeletePalNvContext, NoRecord
<1>5. CASE EarlyInitErase
  BY <1>5, EarlyInitEraseInv
<1>6. CASE EarlyInitDefault
  BY <1>6 DEF EarlyInitDefault
<1>7. CASE BootVerdict
  BY <1>7, SetStateBootInv DEF BootVerdict
<1>8. CASE ClientSetsState
  BY <1>8, SetStateBootInv DEF ClientSetsState
<1>9. CASE CreateRefused
  BY <1>9 DEF CreateRefused, StateAtCreate
<1>10. CASE CreateFileForRx
  BY <1>10, CreateFileForRxInv
<1>11. CASE otaPal_WriteBlock
  BY <1>11, WriteBlockInv
<1>12. CASE otaPal_CloseFile
  BY <1>12 DEF otaPal_CloseFile
<1>13. CASE otaPal_ActivateNewImage
  BY <1>13 DEF otaPal_ActivateNewImage
<1>14. CASE ClientResets
  BY <1>14 DEF ClientResets
<1>15. CASE CreateRecord
  BY <1>15 DEF CreateRecord, prvDeletePalNvContext, NoRecord
<1>16. CASE DiscardRecord
  BY <1>16 DEF DiscardRecord, prvDeletePalNvContext, NoRecord
<1>17. CASE otaPal_ResetDevice
  <2>1. CASE ResetSelfTest
    BY <1>17, <2>1, ResetSelfTestInv DEF otaPal_ResetDevice
  <2>2. CASE ResetPendingSelfTest
    BY <1>17, <2>2, ResetPendingSelfTestInv DEF otaPal_ResetDevice
  <2>3. CASE ResetSelfTestFailed
    BY <1>17, <2>3, ResetSelfTestFailedInv DEF otaPal_ResetDevice
  <2>4. CASE ResetOther
    BY <1>17, <2>4, ResetOtherInv DEF otaPal_ResetDevice
  <2> QED BY <1>17, <2>1, <2>2, <2>3, <2>4 DEF otaPal_ResetDevice
<1>18. CASE prvSelectBank
  BY <1>18 DEF prvSelectBank
<1>19. CASE prvOptionByteApply
  BY <1>19 DEF prvOptionByteApply, Restart
<1>20. CASE vDoSystemReset
  BY <1>20 DEF vDoSystemReset, Restart
<1>21. CASE ResetStrikes
  BY <1>21 DEF ResetStrikes, Restart
<1>22. CASE WatchdogReset
  BY <1>22 DEF WatchdogReset, Restart
<1>23. CASE UNCHANGED vars
  BY <1>23 DEF vars
<1> QED BY <1>1, <1>2, <1>3, <1>4, <1>5, <1>6, <1>7, <1>8, <1>9, <1>10, <1>11,
           <1>12, <1>13, <1>14, <1>15, <1>16, <1>17, <1>18, <1>19, <1>20, <1>21,
           <1>22, <1>23
        DEF Next, Boot, otaPal_EarlyInit, Client, CallProceeds

(* Whatever client, verdicts and reset points, and even if the record      *)
(* cannot be written or removed, the device never boots an erased or       *)
(* half-written bank.                                                      *)
THEOREM NeverBootsPartialImage ==
  ASSUME Faults \subseteq {"nvOpen", "nvWrite", "nvDelete"}
  PROVE  Spec => []BootBankComplete
<1>1. Init => BootInv
  BY OtaPalAssumption, OtherBankValues
     DEF Init, BootInv, TypeOK, Banks, Contents, NoRecord, PalStates,
         ControlPoints, NoFile, BootBankComplete, UnderJudgement, Receiving,
         FallbackComplete, RecordOK, RecordNamesRunningBank, ReceivingOK,
         PendingSelfTestOK, WdtResetOK, SwapOK
<1>2. BootInv /\ [Next]_vars => BootInv'
  BY BootInvStep
<1>3. BootInv => BootBankComplete
  BY DEF BootInv
<1> QED BY <1>1, <1>2, <1>3, PTL DEF Spec

-----------------------------------------------------------------------------
(* The update protocol.                                                    *)
(*                                                                         *)
(* If only the removal of the record may fail, and no reset strikes        *)
(* between the change of the record and that of the option byte, then the  *)
(* record, the option byte and the banks agree in every boot, and the      *)
(* context agrees with them at every control point.                        *)

Fallback == ulGetOtherBank(bankAtBootup)

Record(state, b) == [xPalState |-> state, ulFileTargetBank |-> b]

Settled == image[bankAtBootup] = "accepted"

(* What a boot from bank b needs: an accepted image and no record but one  *)
(* of a trial that ended, or an image on trial with its record and an      *)
(* accepted image to go back to.                                           *)
Bootable(b) ==
  \/ /\ image[b] = "accepted"
     /\ \/ nv = NoRecord
        \/ \E s \in {"NewImageBooted", "NewImageWdtReset", "SelfTestFailed"} :
             nv = Record(s, ulGetOtherBank(b))
  \/ /\ image[ulGetOtherBank(b)] = "accepted"
     /\ \/ image[b] \in {"staged", "failed"} /\ nv = Record("NewImageBooted", b)
        \/ image[b] = "staged" /\ nv = Record("PendingSelfTest", b)

(* The bank of the next boot.                                              *)
NextBank == IF pc = "selectBank" /\ SwapNeeded THEN ulPendingBank ELSE ob

(* The context while the running image is on trial.                        *)
TrialContext ==
  /\ ulTargetBank = bankAtBootup /\ image[Fallback] = "accepted"
  /\ \/ pc = "earlyInit" /\ nv = Record(xPalState, bankAtBootup)
     \/ pc = "selectBank" /\ SwapNeeded
     \/ /\ pc \in {"verdict", "app", "resetDevice"}
        /\ nv = Record("NewImageBooted", bankAtBootup)
        /\ \/ /\ xPalState \in {"NewImageBooted", "Invalid"}
              /\ image[bankAtBootup] = "staged"
           \/ xPalState = "SelfTestFailed" /\ pc = "resetDevice"

(* The context while the running image is an accepted one.                 *)
SettledContext ==
  \/ /\ ulTargetBank = 0 /\ xPalState \in {"Ready", "Invalid"} /\ nv = NoRecord
  \/ /\ ulTargetBank = bankAtBootup /\ image[Fallback] = "accepted"
     /\ xPalState \in {"Accepted", "Ready", "Invalid"} /\ nv = NoRecord
  \/ /\ ulTargetBank = Fallback
     /\ \/ xPalState \in {"Ready", "Invalid", "FileOpen", "PendingActivation", "Rejected"}
        \/ pc = "earlyInit" /\ nv = Record(xPalState, Fallback)
        \/ /\ xPalState = "PendingSelfTest" /\ image[Fallback] = "staged"
           /\ pc = "resetDevice" \/ (pc = "selectBank" /\ SwapNeeded)
        \/ xPalState = "NewImageWdtReset" /\ pc \in {"selectBank", "sysReset"}

ContextOK ==
  pc \notin {"reset", "obLaunch"} => IF Settled THEN SettledContext ELSE TrialContext

(* The client's file is in the bank that does not run.                     *)
FileOK ==
  /\ blocks # NoFile => ulTargetBank = Fallback
  /\ blocks = 0 => image[Fallback] = "staged"

PointOK ==
  /\ pc \in {"reset", "earlyInit", "earlyErase", "verdict", "discardNv"} => blocks = NoFile
  /\ pc = "earlyInit" => nv # NoRecord \/ xPalState = "Ready"
  /\ pc \in {"earlyErase", "createNv", "discardNv"} => Settled /\ ulTargetBank = Fallback
  /\ pc = "createNv" => xPalState = "FileOpen"
  /\ pc = "selectBank" => uxStatus = "Success" \/ SwapNeeded
  /\ pc = "sysReset" => uxStatus = "Success"
  /\ pc # "obLaunch" => ob = bankAtBootup
  /\ NoAssertFails

ProtocolInv ==
  TypeOK /\ Bootable(NextBank) /\ ContextOK /\ FileOK /\ PointOK

LEMMA ProtocolInit == Init => ProtocolInv
BY OtaPalAssumption, OtherBankValues
   DEF Init, ProtocolInv, TypeOK, Banks, Contents, NoRecord, PalStates,
       ControlPoints, NoFile, Bootable, NextBank, ContextOK, FileOK, PointOK,
       NoAssertFails

(* A call of otaPal_SetPlatformImageState, by vInitTask or the client.     *)
LEMMA SetStateProtocol ==
  ASSUME Faults \subseteq {"nvDelete"},
         ProtocolInv, pc \in {"verdict", "app"}, TypeOK',
         NEW d, otaPal_SetPlatformImageState(d)
  PROVE  ProtocolInv'
<1> USE OtaPalAssumption, OtherBankValues
    DEF Banks, ProtocolInv, TypeOK, flash, ctx, call, Contents, NoFile, Halt,
        Return, RunsTarget, RunsFallback, Fallback, Settled, Bootable, NextBank,
        TrialContext, SettledContext, ContextOK, FileOK, PointOK,
        NoAssertFails, Record, SwapNeeded
<1>1. CASE SetAccepted
  BY <1>1 DEF SetAccepted, AcceptImage, prvDeletePalNvContext, NoRecord
<1>2. CASE SetRejected
  BY <1>2 DEF SetRejected, RejectBooted, DiscardTarget, Failed, Erasable,
     prvEraseBank
<1>3. CASE SetTesting
  BY <1>3 DEF SetTesting, TestingAsserts, AssertedBank
<1>4. CASE SetAborted
  BY <1>4 DEF SetAborted, DiscardTarget, Erasable, prvEraseBank, AbortAsserts,
     Abortable, AssertedBank
<1>5. CASE SetUnknown
  BY <1>5 DEF SetUnknown
<1> QED BY <1>1, <1>2, <1>3, <1>4, <1>5 DEF otaPal_SetPlatformImageState

LEMMA ProtocolStep ==
  ASSUME Faults \subseteq {"nvDelete"}, "selectBank" \notin ResetPoints,
         ProtocolInv, [Next]_vars
  PROVE  ProtocolInv'
<1>0. TypeOK'
  BY TypeStep DEF ProtocolInv
<1> USE <1>0, OtaPalAssumption, OtherBankValues
    DEF Banks, ProtocolInv, TypeOK, flash, ctx, call, Contents,
        NoFile, Halt, RunsTarget, RunsFallback, Fallback, Settled, Bootable,
        NextBank, TrialContext, SettledContext, ContextOK, FileOK, PointOK,
        NoAssertFails, Record, SwapNeeded
<1>1. CASE prvInitializePalContext
  BY <1>1 DEF prvInitializePalContext, NoRecord
<1>2. CASE EarlyInitSelfTest
  BY <1>2 DEF EarlyInitSelfTest, prvWritePalNvContext, NoRecord
<1>3. CASE EarlyInitWatchdog
  BY <1>3 DEF EarlyInitWatchdog, prvWritePalNvContext, Failed, NoRecord
<1>4. CASE EarlyInitReverted
  BY <1>4 DEF EarlyInitReverted, prvDeletePalNvContext, NoRecord
<1>5. CASE EarlyInitErase
  BY <1>5 DEF EarlyInitErase, Erasable, prvEraseBank
<1>6. CASE EarlyInitDefault
  BY <1>6 DEF EarlyInitDefault, NoRecord
<1>7. CASE BootVerdict
  BY <1>7, SetStateProtocol DEF BootVerdict
<1>8. CASE ClientSetsState
  BY <1>8, SetStateProtocol DEF ClientSetsState
<1>9. CASE CreateRefused
  BY <1>9 DEF CreateRefused, StateAtCreate
<1>10. CASE CreateFileForRx
  BY <1>10 DEF CreateFileForRx, prvEraseBank, StateAtCreate
<1>11. CASE otaPal_WriteBlock
  BY <1>11 DEF otaPal_WriteBlock, prvWriteToFlash
<1>12. CASE otaPal_CloseFile
  BY <1>12 DEF otaPal_CloseFile
<1>13. CASE otaPal_ActivateNewImage
  BY <1>13 DEF otaPal_ActivateNewImage
<1>14. CASE ClientResets
  BY <1>14 DEF ClientResets
<1>15. CASE CreateRecord
  BY <1>15 DEF CreateRecord, prvDeletePalNvContext, NoRecord
<1>16. CASE DiscardRecord
  BY <1>16 DEF DiscardRecord, prvDeletePalNvContext, NoRecord
<1>17. CASE otaPal_ResetDevice
  <2>1. CASE ResetSelfTest
    BY <1>17, <2>1 DEF otaPal_ResetDevice, ResetSelfTest, prvWritePalNvContext, Failed, Status
  <2>2. CASE ResetPendingSelfTest
    BY <1>17, <2>2 DEF otaPal_ResetDevice, ResetPendingSelfTest, prvWritePalNvContext, Status
  <2>3. CASE ResetSelfTestFailed
    BY <1>17, <2>3 DEF otaPal_ResetDevice, ResetSelfTestFailed, prvDeletePalNvContext, NoRecord, Status
  <2>4. CASE ResetOther
    BY <1>17, <2>4 DEF otaPal_ResetDevice, ResetOther
  <2> QED BY <1>17, <2>1, <2>2, <2>3, <2>4 DEF otaPal_ResetDevice
<1>18. CASE prvSelectBank
  BY <1>18 DEF prvSelectBank
<1>19. CASE prvOptionByteApply
  BY <1>19 DEF prvOptionByteApply, Restart
<1>20. CASE vDoSystemReset
  BY <1>20 DEF vDoSystemReset, Restart
<1>21. CASE ResetStrikes
  BY <1>21 DEF ResetStrikes, Restart, Interruptible
<1>22. CASE WatchdogReset
  BY <1>22 DEF WatchdogReset
<1>23. CASE UNCHANGED vars
  BY <1>23 DEF vars
<1> QED BY <1>1, <1>2, <1>3, <1>4, <1>5, <1>6, <1>7, <1>8, <1>9, <1>10, <1>11,
           <1>12, <1>13, <1>14, <1>15, <1>16, <1>17, <1>18, <1>19, <1>20, <1>21,
           <1>22, <1>23
        DEF Next, Boot, otaPal_EarlyInit, Client, CallProceeds

-----------------------------------------------------------------------------
LEMMA ProtocolAlways ==
  ASSUME Faults \subseteq {"nvDelete"}, "selectBank" \notin ResetPoints
  PROVE  Spec => []ProtocolInv
<1>1. ProtocolInv /\ [Next]_vars => ProtocolInv'
  BY ProtocolStep
<1> QED BY <1>1, ProtocolInit, PTL DEF Spec

(* No assertion of the PAL ever fails, whatever the client asks for and in *)
(* whatever order, and wherever else a reset strikes.                      *)
THEOREM AssertionsHold ==
  ASSUME Faults \subseteq {"nvDelete"}, "selectBank" \notin ResetPoints
  PROVE  Spec => []NoAssertFails
<1>1. ProtocolInv => NoAssertFails
  BY DEF ProtocolInv, PointOK
<1> QED BY <1>1, ProtocolAlways, PTL

(* The application never runs an image that failed as if it had been       *)
(* accepted, nor one on trial without its record and an accepted image to  *)
(* go back to.                                                             *)
THEOREM TrustedImageRuns ==
  ASSUME Faults \subseteq {"nvDelete"}, "selectBank" \notin ResetPoints
  PROVE  Spec => []RunsTrustedImage
<1>1. ProtocolInv => RunsTrustedImage
  BY DEF ProtocolInv, ContextOK, TrialContext, Settled, Record, Fallback,
     RunsTrustedImage
<1> QED BY <1>1, ProtocolAlways, PTL

-----------------------------------------------------------------------------
(* OtaPal implements OtaUpdate.                                            *)

Good == {b \in Banks : image[b] = "accepted"}

(* What a step does to the banks, as the update protocol sees it.          *)
Unseen   == Good' = Good /\ ob' = ob
Writes   == Settled /\ ob = bankAtBootup /\ Good' = {ob} /\ ob' = ob
Accepts  == ~Settled /\ ob = bankAtBootup /\ Good' = Good \cup {ob} /\ ob' = ob
Switches == pc = "selectBank" /\ SwapNeeded /\ image' = image /\ ob' = ulPendingBank

BankStep == Unseen \/ Writes \/ Accepts \/ Switches

LEMMA BankSteps == BankStep /\ ProtocolInv => [Update!ANext]_(Update!avars)
<1> SUFFICES ASSUME BankStep, ProtocolInv PROVE [Update!ANext]_(Update!avars)
  OBVIOUS
<1>0. ob \in Banks
  BY DEF ProtocolInv, TypeOK
<1>1. CASE Unseen
  <2>1. image'[ob'] = "accepted" <=> image[ob] = "accepted"
    <3>1. ob \in Good' <=> ob \in Good
      BY <1>1 DEF Unseen
    <3>2. image'[ob] = "accepted" <=> image[ob] = "accepted"
      BY <1>0, <3>1 DEF Good
    <3> QED BY <1>1, <3>2 DEF Unseen
  <2> QED BY <1>1, <2>1 DEF Unseen, Good, Update!avars
<1>2. CASE Writes
  <2>1. image[ob] = "accepted" /\ image'[ob] = "accepted"
    <3>1. ob \in Good' /\ ob' = ob /\ image[ob] = "accepted"
      BY <1>2 DEF Writes, Settled
    <3> QED BY <1>0, <3>1 DEF Good
  <2>2. Update!Overwrite
    BY <1>2, <2>1 DEF Writes, Good, Update!Overwrite
  <2> QED BY <2>2 DEF Update!ANext
<1>3. CASE Accepts
  <2>1. image[ob] # "accepted" /\ image'[ob] = "accepted"
    <3>1. ob \in Good' /\ ob' = ob /\ image[ob] # "accepted"
      BY <1>3 DEF Accepts, Settled
    <3> QED BY <1>0, <3>1 DEF Good
  <2>2. Update!Accept
    BY <1>3, <2>1 DEF Accepts, Good, Update!Accept
  <2> QED BY <2>2 DEF Update!ANext
<1>4. CASE Switches
  <2>1. ulPendingBank \in Banks /\ Bootable(ulPendingBank) /\ Good' = Good
        /\ ulPendingBank = ulGetOtherBank(bankAtBootup) /\ ob = bankAtBootup
    BY <1>4, OtherBank DEF Switches, SwapNeeded, ProtocolInv, NextBank, TypeOK, Good, PointOK
  <2>2. CASE image[ulPendingBank] = "accepted"
    <3>1. Update!GoBack(ulPendingBank)
      BY <1>4, <2>1, <2>2 DEF Switches, Good, Update!GoBack
    <3> QED BY <2>1, <3>1 DEF Update!ANext
  <2>3. CASE image[ulPendingBank] # "accepted"
    <3>1. image[ob] = "accepted"
      BY <2>1, <2>3, OtherBank DEF Bootable, ProtocolInv, TypeOK
    <3>2. Update!StartTrial(ulPendingBank)
      BY <1>4, <2>1, <2>3, <3>1 DEF Switches, Good, Update!StartTrial
    <3> QED BY <2>1, <3>2 DEF Update!ANext
  <2> QED BY <2>2, <2>3
<1> QED BY <1>1, <1>2, <1>3, <1>4 DEF BankStep

LEMMA SetStateBanks ==
  ASSUME ProtocolInv, pc \in {"verdict", "app"},
         NEW d, otaPal_SetPlatformImageState(d)
  PROVE  BankStep
<1> USE OtherBankValues
    DEF Banks, ProtocolInv, TypeOK, flash, ctx, call, Contents, Halt, Return,
        RunsTarget, RunsFallback, Fallback, Settled, ContextOK, TrialContext,
        SettledContext, PointOK, Good, BankStep, Unseen, Writes, Accepts
<1>1. CASE SetAccepted
  BY <1>1 DEF SetAccepted, AcceptImage
<1>2. CASE SetRejected
  BY <1>2 DEF SetRejected, RejectBooted, DiscardTarget, Failed, Erasable, prvEraseBank
<1>3. CASE SetTesting
  BY <1>3 DEF SetTesting
<1>4. CASE SetAborted
  BY <1>4 DEF SetAborted, DiscardTarget, Erasable, prvEraseBank
<1>5. CASE SetUnknown
  BY <1>5 DEF SetUnknown
<1> QED BY <1>1, <1>2, <1>3, <1>4, <1>5 DEF otaPal_SetPlatformImageState

LEMMA StepBanks == ProtocolInv /\ [Next]_vars => BankStep
<1> SUFFICES ASSUME ProtocolInv, [Next]_vars PROVE BankStep
  OBVIOUS
<1> USE OtherBankValues
    DEF Banks, ProtocolInv, TypeOK, flash, ctx, call, Contents, Halt,
        RunsTarget, RunsFallback, Fallback, Settled, ContextOK, TrialContext,
        SettledContext, FileOK, PointOK, Good, BankStep, Unseen, Writes,
        Accepts, Switches
<1>1. CASE Boot
  <2>1. CASE prvInitializePalContext \/ EarlyInitSelfTest \/ EarlyInitReverted
             \/ EarlyInitDefault
    BY <2>1 DEF prvInitializePalContext, EarlyInitSelfTest,
       EarlyInitReverted, EarlyInitDefault
  <2>2. CASE EarlyInitWatchdog
    BY <2>2 DEF EarlyInitWatchdog, Failed
  <2>3. CASE EarlyInitErase
    BY <2>3 DEF EarlyInitErase, Erasable, prvEraseBank
  <2>4. CASE BootVerdict
    BY <2>4, SetStateBanks DEF BootVerdict
  <2> QED BY <1>1, <2>1, <2>2, <2>3, <2>4 DEF Boot, otaPal_EarlyInit
<1>2. CASE Client
  <2>1. CASE ClientSetsState
    BY <2>1, SetStateBanks DEF ClientSetsState
  <2>2. CASE CreateFileForRx
    BY <2>2 DEF CreateFileForRx, prvEraseBank, StateAtCreate
  <2>3. CASE otaPal_WriteBlock
    BY <2>3, OtaPalAssumption DEF otaPal_WriteBlock, prvWriteToFlash, NoFile
  <2>4. CASE CreateRefused \/ otaPal_CloseFile \/ otaPal_ActivateNewImage
             \/ ClientResets
    BY <2>4 DEF CreateRefused, otaPal_CloseFile, otaPal_ActivateNewImage,
       ClientResets
  <2> QED BY <1>2, <2>1, <2>2, <2>3, <2>4 DEF Client
<1>3. CASE CallProceeds
  <2>1. CASE CreateRecord \/ DiscardRecord
    BY <2>1 DEF CreateRecord, DiscardRecord
  <2>2. CASE otaPal_ResetDevice
    BY <2>2 DEF otaPal_ResetDevice, ResetSelfTest, ResetPendingSelfTest,
       ResetSelfTestFailed, ResetOther, Failed
  <2>3. CASE prvSelectBank \/ prvOptionByteApply \/ vDoSystemReset
    BY <2>3 DEF prvSelectBank, prvOptionByteApply, vDoSystemReset, Restart
  <2> QED BY <1>3, <2>1, <2>2, <2>3 DEF CallProceeds
<1>4. CASE ResetStrikes \/ WatchdogReset
  BY <1>4 DEF ResetStrikes, WatchdogReset, Restart
<1>5. CASE UNCHANGED vars
  BY <1>5 DEF vars
<1> QED BY <1>1, <1>2, <1>3, <1>4, <1>5 DEF Next

(* The banks and the option byte follow the update protocol: a bank is     *)
(* written only while an accepted image runs from the other, an image on   *)
(* trial is mapped only with an accepted one to go back to.                *)
THEOREM UpdateImplemented ==
  ASSUME Faults \subseteq {"nvDelete"}, "selectBank" \notin ResetPoints
  PROVE  Spec => ImplementsUpdate
<1>1. Init => Update!AInit
  BY DEF Init, Banks, Update!AInit
<1>2. ProtocolInv /\ [Next]_vars => [Update!ANext]_(Update!avars)
  BY StepBanks, BankSteps
<1> QED
  BY <1>1, <1>2, ProtocolAlways, PTL DEF Spec, ImplementsUpdate, Update!ASpec

(* What the protocol of OtaUpdate guarantees of two banks.                 *)
LEMMA ProtocolRecoverable == Update!ASpec => []Update!Recoverable
<1>1. Update!AInit => Update!Recoverable
  BY DEF Update!AInit, Update!Recoverable
<1>2. Update!Recoverable /\ [Update!ANext]_(Update!avars) => Update!Recoverable'
  BY DEF Update!ANext, Update!avars, Update!Overwrite, Update!Accept,
     Update!StartTrial, Update!GoBack, Update!Recoverable
<1> QED BY <1>1, <1>2, PTL DEF Update!ASpec

(* There is always an accepted image in a bank, and the option byte        *)
(* selects one or an image on trial.                                       *)
THEOREM AlwaysRecoverable ==
  ASSUME Faults \subseteq {"nvDelete"}, "selectBank" \notin ResetPoints
  PROVE  Spec => []Update!Recoverable
BY UpdateImplemented, ProtocolRecoverable, PTL DEF ImplementsUpdate
=============================================================================
