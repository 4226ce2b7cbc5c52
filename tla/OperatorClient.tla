--------------------------- MODULE OperatorClient ---------------------------
(***************************************************************************)
(* The QEMU operator under a driver that does anything and keeps track of  *)
(* one thing: whether WEIGHT_CRC is what it was at an ACTIVATE that was    *)
(* accepted.  The device holds no bank, so a result is attributed to its   *)
(* bank only if START finds the bank that such an ACTIVATE has seen.       *)
(***************************************************************************)
EXTENDS P210Operator

VARIABLES
    kept,       \* an ACTIVATE was accepted, and WEIGHT_CRC is as it was then
    attested    \* the latest result was computed while that was so

clientVars == <<vars, kept, attested>>

ClientInit == Init /\ kept = FALSE /\ attested = FALSE

\* The bank may move: its address and size are not looked at.
Reprogram(file) ==
    /\ WriteRegisters(file)
    /\ kept' = (kept /\ file.crc = regs.crc)
    /\ attested' = attested

\* A refused bank leaves the checksum of the accepted one live.
TryBank ==
    /\ Activate
    /\ kept' = (kept \/ "BANK_CRC_FAIL" \notin status')
    /\ attested' = attested

Run ==
    /\ Start
    /\ attested' = IF sequence' # sequence THEN kept ELSE attested
    /\ kept' = kept

Forget == Reset /\ kept' = FALSE /\ attested' = FALSE

\* Neither the bank in memory nor BYPASS matters.
Disturb ==
    /\ BypassSelect \/ \E load \in Loads : Load(load[1], load[2])
    /\ UNCHANGED <<kept, attested>>

ClientNext ==
    (\E file \in Files : Reprogram(file)) \/ TryBank \/ Run \/ Forget \/ Disturb

ClientSpec == ClientInit /\ [][ClientNext]_clientVars
-----------------------------------------------------------------------------
(* What is checked.                                                        *)

\* p210_operator_device.h's "per-result weight attribution", as far as the QEMU
\* device keeps it: the bank may have been overwritten since ACTIVATE, by a result
\* too, moved, or replaced by one that a later ACTIVATE refused; a result that is
\* counted nonetheless was computed with the bank whose checksum it reports.
KeptChecksumAttributes == attested => ResultNamesItsBank
=============================================================================
