----------------------------- MODULE MCInstance -----------------------------
(* A TApp with the selector app=a, a claim template, and the edits that take *)
(* different ways: an image, an init image, the spec, labels, the pool       *)
EXTENDS Instance

TheSelector == [app |-> "a", tier |-> None]

T(image, init, volumes, app, tier, port, pool) ==
    [image |-> image, init |-> init, volumes |-> volumes,
     labels |-> [app |-> app, tier |-> tier], port |-> port, pool |-> pool]

Base == T("i1", "n1", {"data"}, "a", "x", None, FALSE)

With(t, claimNames) == [template |-> t, claims |-> claimNames]

TheSpecs ==
    {With(Base, {"data", "log"}),
     With([Base EXCEPT !.image = "i2", !.port = "p0"], {"data", "log"}),
     With([Base EXCEPT !.init = "n2"], {"data", "log"}),
     With([Base EXCEPT !.volumes = {}], {"log"}),
     With([Base EXCEPT !.labels.app = "b"], {"data", "log"}),
     With([Base EXCEPT !.labels.tier = None, !.pool = TRUE], {"data", "log"}),
     With(T("i1", "n1", {}, None, None, None, TRUE), {"data"})}
=============================================================================
