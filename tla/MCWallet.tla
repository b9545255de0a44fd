------------------------------- MODULE MCWallet -------------------------------
(***************************************************************************)
(* The instance of Wallet for TLC: two devices that share one account, with *)
(* nothing to tell them apart.                                             *)
(***************************************************************************)
EXTENDS WalletLedger, TLC

CONSTANTS alice, phone, laptop

OneAccount == {alice}
BothPhones == [d \in {phone, laptop} |-> alice]

Interchangeable == Permutations({phone, laptop})
=============================================================================
