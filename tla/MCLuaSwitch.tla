------------------------------ MODULE MCLuaSwitch ------------------------------
(* The instance of LuaSwitch that TLC checks: a station that switches between *)
(* two files, one that has no key, and the key of a third that runs no script.*)
(* The cache is scaled down to the last two keys: it evicts from the fourth.  *)
EXTENDS LuaSwitch, TLC

CONSTANTS outstn, keyless, a, b

MCStations == {outstn, keyless}
MCTrigger == (outstn :> a) @@ (keyless :> NoKey)
MCNumFiles == (outstn :> 2) @@ (keyless :> 1)
MCluaTriggers == {a, b}
===============================================================================
