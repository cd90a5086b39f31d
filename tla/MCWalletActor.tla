--------------------------- MODULE MCWalletActor ---------------------------
(***************************************************************************)
(* Small wallets for TLC.  Balances are three-bit (0..3), so a credit can  *)
(* overflow and a debit can fall short.                                    *)
(***************************************************************************)
EXTENDS WalletActor

Msg(k, action, amount, form) ==
    [key |-> k, action |-> action, amount |-> amount, form |-> form]

\* One message the funds may not cover, two that can overflow together, and
\* the three kinds apply() turns away unread.
MCMessages ==
    {Msg("d1", "debit", 2, "ok"), Msg("c1", "credit", 1, "ok"),
     Msg("c2", "credit", 2, "ok"),
     Msg("z", "credit", 0, "ok"), Msg("x", "debit", 1, "malformed"),
     Msg("m", "debit", 1, "misrouted")}

\* Enough for two activations to race: the same kinds, one message each.
MCRaceMessages ==
    {Msg("d1", "debit", 2, "ok"), Msg("c1", "credit", 2, "ok")}

Row(available, processing, stamped, status) ==
    LET w == [actual |-> available + processing, available |-> available,
              processing |-> processing, version |-> 0,
              checksum |-> NoChecksum, status |-> status]
    IN IF stamped THEN [w EXCEPT !.checksum = ComputeChecksum(w)] ELSE w

\* A new wallet, a funded one, one with money in processing, one that predates
\* checksums, and none at all.
MCInitialRows ==
    {Row(0, 0, TRUE, "active"), Row(2, 0, TRUE, "active"),
     Row(1, 1, TRUE, "suspended"), Row(2, 0, FALSE, "active"),
     Row(0, 0, FALSE, "none")}
=============================================================================
