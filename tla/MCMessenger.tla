----------------------------- MODULE MCMessenger -----------------------------
(* Small instances of Messenger: three notifications, a queue of two.  The   *)
(* template first leaves the URL out and has an unknown placeholder, then    *)
(* places it behind one, then has a brace that is left open.  The text of    *)
(* the first notification fits, that of the second is cut, and the URL of    *)
(* the third leaves room for nothing but itself.                             *)
EXTENDS Messenger, TLC

CONSTANTS n1, n2, n3

MCTemplates ==
    [v \in 0..MaxVersion |->
        CASE v = 0 -> <<"{", "reason", "}", "{", "other", "}", "\n">>
          [] v = 1 -> <<"{", "other", "}", "{", "reason", "}", "{", "report_url", "}", ".">>
          [] OTHER -> <<"{", "user", "}", "{", "reason">>]

Fields(reason, url) ==
    [user |-> <<"alice">>, reason |-> [i \in 1..reason |-> "r"],
     report_url |-> [i \in 1..url |-> <<"u1", "u2", "u3", "u4", "u5", "u6">>[i]]]

MCContext == n1 :> Fields(1, 2) @@ n2 :> Fields(8, 3) @@ n3 :> Fields(9, 6)
==============================================================================
