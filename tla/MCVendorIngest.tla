--------------------------- MODULE MCVendorIngest ---------------------------
(* Instances of VendorIngest for TLC. *)
EXTENDS VendorIngest, TLC

CONSTANTS batch, hook, poll, manual, a, b, c

\* A client's batch, a webhook, and the scheduled poll and the operator's trigger
\* of one connector, with common events.
AllVia == (batch :> "control") @@ (hook :> "vendor") @@ (poll :> "connector")
            @@ (manual :> "connector")
AllItems == (batch :> <<a, b>>) @@ (hook :> <<b>>) @@ (poll :> <<a, c>>) @@ (manual :> <<c, a>>)
\* A vendor that lists its newest event first, and a file with the older one.
HookVia == (hook :> "vendor") @@ (manual :> "vendor")
HookItems == (hook :> <<a, b>>) @@ (manual :> <<b>>)
=============================================================================
