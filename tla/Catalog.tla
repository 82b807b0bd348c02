------------------------------- MODULE Catalog -------------------------------
(***************************************************************************)
(* What loading promises, with no memory in it: a model is the mapping     *)
(* from tensor names to contents that a stream of named tensors denotes,   *)
(* the last tensor of a name winning, as it wins when a receiver assigns   *)
(* parameters in order.  A model enters the catalog whole, when its stream *)
(* has ended, and never changes again.  A load that is abandoned leaves    *)
(* nothing.                                                                *)
(*                                                                         *)
(* The content of the p-th tensor of a load of model m is opaque here:     *)
(* Content(m, p, t) for the tensor t.                                      *)
(***************************************************************************)
EXTENDS Naturals, Sequences

CONSTANTS
    Models,            \* the model ids
    NoModel,           \* "no load in progress"
    Tensors,           \* what a source may yield; t.name is a tensor's name
    Content(_, _, _)   \* content of the p-th tensor of m's stream

VARIABLES
    catalog,   \* model id -> [tensor name -> content], for the loaded models
    incoming   \* the load in progress: [model, given], given the tensors so far

catalogVars == <<catalog, incoming>>

Nothing == [model |-> NoModel, given |-> <<>>]

Names(given) == {given[p].name : p \in DOMAIN given}

LastOf(given, name) ==
    CHOOSE p \in DOMAIN given :
        /\ given[p].name = name
        /\ \A q \in DOMAIN given : given[q].name = name => q <= p

Denoted(m, given) ==
    [name \in Names(given) |->
        LET p == LastOf(given, name) IN Content(m, p, given[p])]

CatalogInit ==
    /\ catalog = [m \in {} |-> m]
    /\ incoming = Nothing

Begin(m) ==
    /\ incoming = Nothing
    /\ m \notin DOMAIN catalog
    /\ incoming' = [model |-> m, given |-> <<>>]
    /\ UNCHANGED catalog

Supply(t) ==
    /\ incoming # Nothing
    /\ incoming' = [incoming EXCEPT !.given = Append(@, t)]
    /\ UNCHANGED catalog

Enter ==
    /\ incoming # Nothing
    /\ catalog' = [m \in DOMAIN catalog \cup {incoming.model} |->
                      IF m = incoming.model
                      THEN Denoted(m, incoming.given) ELSE catalog[m]]
    /\ incoming' = Nothing

Abandon ==
    /\ incoming # Nothing
    /\ incoming' = Nothing
    /\ UNCHANGED catalog

CatalogNext ==
    \/ \E m \in Models : Begin(m)
    \/ \E t \in Tensors : Supply(t)
    \/ Enter
    \/ Abandon

CatalogSpec == CatalogInit /\ [][CatalogNext]_catalogVars
==============================================================================
