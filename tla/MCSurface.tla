----------------------------- MODULE MCSurface -----------------------------
(* The surface of the API, for TLC: who is signed in and admitted, and the    *)
(* pages in which collections are read.  Each is explored by itself while the *)
(* other rests.                                                               *)
EXTENDS MCAccess, Listings

VARIABLE part       \* the component that is explored

-----------------------------------------------------------------------------

\* The component that rests is in one state.
SurfaceInit ==
    /\ part \in {"access", "listing"}
    /\ Init /\ ListingInit
    /\ part = "access" => listing = CHOOSE name \in Offered : TRUE

SurfaceNext ==
    \/ part = "access" /\ Next /\ UNCHANGED <<part, listingVars>>
    \/ part = "listing" /\ ListingNext /\ UNCHANGED <<part, vars>>

SurfaceSpec == SurfaceInit /\ [][SurfaceNext]_<<part, vars, listingVars>>

=============================================================================
