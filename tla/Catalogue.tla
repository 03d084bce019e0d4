----------------------------- MODULE Catalogue -----------------------------
(***************************************************************************)
(* What a node promises its peers, with goroutines, buckets and the hub    *)
(* cache hidden.  It answers map queries from a catalogue of revisions and *)
(* block queries from what it has.  A revision is offered only when all of *)
(* it can be served, and all of it can be until the revision is withdrawn; *)
(* a node gives up only what a revision on its way out has, never what     *)
(* another one on offer needs; and what it gives up in the end is all of   *)
(* it, unless the withdrawal was cut short.                                *)
(***************************************************************************)
CONSTANTS
    Commits,
    Content(_)  \* the CIDs a manifest stands for

VARIABLES
    offer,    \* commit -> manifest, {} when the revision is not offered
    leaving,  \* revisions that are on offer and being withdrawn
    cut,      \* those of them whose withdrawal was cut short
    served    \* CIDs a block query is answered for

catalogueVars == <<offer, leaving, cut, served>>

CatalogueInit ==
    /\ offer = [c \in Commits |-> {}]
    /\ leaving = {} /\ cut = {} /\ served = {}

OnOffer == {c \in Commits : offer[c] # {}}

(* Blocks and references are stored.                                       *)
Gain ==
    /\ served \subseteq served'
    /\ UNCHANGED <<offer, leaving, cut>>

(* The mapping is written, anew or over an older one.                      *)
Offer(c) ==
    /\ offer'[c] # {} /\ Content(offer'[c]) \subseteq served
    /\ offer' = [offer EXCEPT ![c] = offer'[c]]
    /\ leaving' = leaving \ {c} /\ cut' = cut \ {c}
    /\ UNCHANGED served

(* An eviction is about to delete.                                         *)
Withdraw(c) ==
    /\ c \in OnOffer
    /\ leaving' = leaving \cup {c}
    /\ UNCHANGED <<offer, cut, served>>

(* It gives up blocks of its revision that no other on offer needs.        *)
Drop(c) ==
    /\ c \in leaving
    /\ served' \subseteq served
    /\ served \ served' \subseteq Content(offer[c])
    /\ \A o \in OnOffer \ leaving : Content(offer[o]) \subseteq served'
    /\ UNCHANGED <<offer, leaving, cut>>

(* Evictions fail, or the node does; their revisions stay on offer.        *)
Interrupt ==
    /\ cut \subseteq cut' /\ cut' \subseteq leaving
    /\ UNCHANGED <<offer, leaving, served>>

(* The mapping is deleted.  What is left is needed elsewhere.              *)
Retract(c) ==
    /\ c \in leaving
    /\ offer' = [offer EXCEPT ![c] = {}]
    /\ leaving' = leaving \ {c} /\ cut' = cut \ {c}
    /\ c \notin cut => \A x \in Content(offer[c]) \cap served :
                          \E o \in OnOffer \ {c} : x \in Content(offer[o])
    /\ UNCHANGED served

CatalogueNext ==
    \/ Gain \/ Interrupt
    \/ \E c \in Commits : Offer(c) \/ Withdraw(c) \/ Drop(c) \/ Retract(c)

CatalogueSpec == CatalogueInit /\ [][CatalogueNext]_catalogueVars

=============================================================================
