----------------------------- MODULE MCSettings -----------------------------
\* The settings with two values each, and the description's worker.
EXTENDS Settings, TLC

MCDefaultOf == [addr |-> "a1", host |-> "h1", desc |-> "d1"]

\* A request may name nothing, the address, one of the voice service's
\* settings (a value or a reset), or two of them.
MCNamed ==
    {<<>>, "addr" :> "a2", "addr" :> "a1", "desc" :> "d2", "desc" :> None,
     "host" :> None, "addr" :> "a2" @@ "desc" :> "d2"}

=============================================================================
