------------------------------ MODULE MCHaFiles ------------------------------
(* Instances of HaFiles small enough for TLC.                                 *)
EXTENDS HaFiles

CONSTANTS lamp, lock, a1, a2, t1, t2

(* A new installation; a file prepared for the house, with the bans written by hand
   below the proxies; a house behind a proxy of its own; an outdated setting, and the
   address of Docker's network as it once was.                                  *)
NewFile == <<Line(0, "other")>>
Prepared ==
    <<Line(0, "http"), Line(2, "xff_true"), Line(2, "proxies"), Line(4, "docker"),
      Line(2, "ip_ban"), Line(2, "threshold"),
      Line(0, "alexa"), Line(0, "google_assistant")>>
OwnProxy ==
    <<Line(0, "http"), Line(2, "xff_true"), Line(2, "proxies"), Line(4, "ip"), Line(0, "other")>>
Outdated ==
    <<Line(0, "http"), Line(2, "port"), Line(2, "xff_false"), Comment(2, "ip_ban"), Line(2, "proxies"),
      Line(4, "docker_old"), Line(2, "threshold")>>

World(files, lists, addresses, n) ==
    [files |-> files, lists |-> lists, addresses |-> addresses, boots |-> n]
NoList == {Absent}
Lists == {Absent, [list |-> {}, config |-> {lock}], [list |-> {lamp}, config |-> {lamp, lock}]}

(* The files one at a time: they share nothing but the restarts and the connection. *)
SomeWorlds ==
    {World({NewFile, Outdated}, NoList, {}, 2),
     World({OwnProxy}, NoList, {}, 3), World({Outdated}, NoList, {}, 3),
     World({Prepared}, Lists, {}, 2),
     World({Prepared}, NoList, {a1, a2}, 2)}
ProxyWorld == {World({OwnProxy}, NoList, {}, 1)}
=============================================================================
