--------------------------- MODULE MCFleetOutput ---------------------------
(* A small instance of FleetOutput: one host that had the tool, whose stderr *)
(* starts with the protocol line and whose stdout ends without a newline,    *)
(* and one host that has just received it.                                   *)
EXTENDS FleetOutput, TLC

CONSTANTS hit, miss

Texts ==
    <<hit, "out">> :> <<"a", "nl", "b">>
    @@ <<hit, "err">> :> <<"proto", "nl", "e">>
    @@ <<miss, "out">> :> <<"c", "nl">>
    @@ <<miss, "err">> :> <<>>
=============================================================================
