--------------------------- MODULE MCRunDisplay ---------------------------
(***************************************************************************)
(* Small instances of AgentGraph and RunDisplay: one analyst, the default  *)
(* four, two with and without tools, the crypto five; no, one, two and     *)
(* three rounds; limits that are met with room to spare, exactly and not.  *)
(***************************************************************************)
EXTENDS RunDisplay

SomeSetups ==
    [analysts: {<<"social">>, <<"market", "social">>}, crypto: {FALSE},
     debateRounds: 0..3, riskRounds: 0..2, stepLimit: {12, 17, 30}]
    \cup
    [analysts: {<<"market", "social", "news", "fundamentals">>}, crypto: {FALSE},
     debateRounds: {1}, riskRounds: {1}, stepLimit: {16, 24}]
    \cup
    [analysts: {<<"market", "derivatives", "social", "catalyst", "regime">>}, crypto: {TRUE},
     debateRounds: {1}, riskRounds: {1}, stepLimit: {24}]
=============================================================================
