--------------------------- MODULE MCSpecDefaults ---------------------------
(***************************************************************************)
(* The two types for TLC, each with a leaf of every sort it has.            *)
(***************************************************************************)
EXTENDS SpecDefaults, TLC

\* ZitiRouterSpec: no finalizer; the CRD gives pointers and maps the default {}.
RouterFields  == {"name", "logLevel", "selector", "labels", "ports"}
RouterStructs == {"deployment", "container"}
RouterIn ==
    [f \in RouterFields |-> CASE f = "name"  -> {}
                              [] f = "ports" -> RouterStructs
                              [] OTHER       -> {"deployment"}]
RouterKind ==
    "name" :> "string" @@ "logLevel" :> "int" @@ "selector" :> "pointer"
        @@ "labels" :> "map" @@ "ports" :> "map"
RouterSchema ==
    "name" :> Absent @@ "logLevel" :> "default" @@ "selector" :> Empty
        @@ "labels" :> Empty @@ "ports" :> Absent
RouterChoices ==
    [f \in RouterFields |-> IF f \in {"labels", "ports"} THEN {"given", Empty} ELSE {"given"}]

\* With the level 0 of the log, which the validation admits.
RouterChoicesZero == [RouterChoices EXCEPT !["logLevel"] = {Empty}]

\* ZitiWebhookSpec: a finalizer, scalars, lists, and a pointer without any default.
WebhookFields  == {"name", "organizations", "replicas", "override", "automount"}
WebhookStructs == {"cert", "deploymentSpec", "env", "serviceAccount"}
WebhookIn ==
    [f \in WebhookFields |-> CASE f = "name"          -> {}
                               [] f = "organizations" -> {"cert"}
                               [] f = "replicas"      -> {"deploymentSpec"}
                               [] f = "override"      -> {"deploymentSpec", "env"}
                               [] f = "automount"     -> {"serviceAccount"}]
WebhookKind ==
    "name" :> "string" @@ "organizations" :> "map" @@ "replicas" :> "int"
        @@ "override" :> "bool" @@ "automount" :> "pointer"
WebhookSchema ==
    "name" :> Absent @@ "organizations" :> "other" @@ "replicas" :> "default"
        @@ "override" :> Empty @@ "automount" :> Absent
WebhookChoices ==
    [f \in WebhookFields |-> CASE f = "replicas"                 -> {"given", Negative}
                               [] f \in {"override", "automount"} -> {"given", Empty}
                               [] OTHER                           -> {"given"}]

\* The defaults of GetDefaults; that of the name is the name of the object.
RouterCode  == [f \in RouterFields |-> "default"]
WebhookCode ==
    [f \in WebhookFields |-> CASE f = "override"  -> Empty
                               [] f = "automount" -> Absent
                               [] OTHER           -> "default"]

\* MinLength=10: the name of the object may be shorter.
AllNames(F) == [f \in F |-> {}]
RouterLong   == AllNames(RouterFields)
WebhookLong  == AllNames(WebhookFields)
RouterShort  == [RouterLong EXCEPT !["name"] = {"default"}]
=============================================================================
