-------------------------------- MODULE MCApi --------------------------------
(* One request for any endpoint, and one that connects or removes the         *)
(* instance, or makes a namesake of it, under it.  The first may make another *)
(* beside it, or one of the same name, or use what the second makes.          *)
EXTENDS EndpointPaths

CONSTANTS r1, r2, i1

MCRequests == {r1, r2}
MCMenu == (r1 :> DOMAIN Endpoint) @@
          (r2 :> {"createInstance", "deleteInstance", "connect"})
MCNames == (r1 :> {"a", "b"}) @@ (r2 :> {"a"})

At(d, running, synchronised, f) == [doc |-> d, registry |-> running, groups |-> synchronised, flow |-> f]
MCBefore ==
    {At("absent", {}, {}, "absent"),
     At("disconnected", {}, {}, "active"), At("disconnected", {i1}, {i1}, "absent"),
     At("connected", {}, {i1}, "active"), At("connected", {i1}, {}, "active")}
=============================================================================
