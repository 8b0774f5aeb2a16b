------------------------------ MODULE MCLuaGC ------------------------------
(* Instances of LuaGC for TLC.                                             *)
EXTENDS LuaGC, TLC

CONSTANTS a1, a2, a3, a4

Addrs == {a1, a2, a3, a4}

Kinds(k1, k2, k3, k4) == a1 :> k1 @@ a2 :> k2 @@ a3 :> k3 @@ a4 :> k4

\* A coroutine with a closure, and a string in its slot.
Coroutines == Kinds({"thread"}, {"function"}, {"upval"}, {"string"})
\* Userdata with finalizers, which are the keys of a weak table.
Sprites == Kinds({"userdata"}, {"weakk"}, {"string"}, {})
\* Two userdata: the finalizer of one may make or keep the other.
Proxies == Kinds({"userdata"}, {"userdata"}, {}, {})
\* Weak values: strings and userdata.
Cache == Kinds({"userdata"}, {"weakv"}, {"string"}, {})
\* A prototype with its constants, and a table.
Code == Kinds({"proto"}, {"table"}, {"string"}, {})

AllPrograms == {Coroutines, Sprites, Proxies, Cache, Code}
=============================================================================
