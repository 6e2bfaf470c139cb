------------------------------ MODULE MCWallet ------------------------------
(* Small instances of Wallet: every top-up and every order is u1's.         *)
EXTENDS Wallet

CONSTANTS u1, TopUpSize, PriceOfAll

MCDepositor == [t \in TopUps |-> u1]
MCDepositAmount == [t \in TopUps |-> TopUpSize]
MCBuyer == [o \in Orders |-> u1]
MCPrice == [o \in Orders |-> PriceOfAll]

=============================================================================
