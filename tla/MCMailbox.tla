----------------------------- MODULE MCMailbox -----------------------------
(* Instances of Mailbox for TLC: the driver's mailbox, and one of another driver. *)
EXTENDS Mailbox, TLC

CONSTANTS sdio, uart, rx, s1, s2, h1, h2

TwoOwners == {sdio, uart}
IdOfOwner == (sdio :> "SDIO") @@ (uart :> "UART")
TwoSenders == {s1, s2}
EndsOf == (s1 :> {FALSE}) @@ (s2 :> {TRUE})
MadeBy == (sdio :> 2) @@ (uart :> 1)
TwoHandles == {h1, h2}
=============================================================================
