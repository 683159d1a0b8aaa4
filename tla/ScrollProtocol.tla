---------------------------- MODULE ScrollProtocol ----------------------------
(***************************************************************************)
(* The scroll registry (eve_q/scroll_protocol.py): definitions are          *)
(* registered, validated and deprecated, listed for a chain, and turned     *)
(* into proposals, alone or in a composition made earlier.  A definition is *)
(* its family, its version (a number for a semver), and its chains; its     *)
(* rules and checksum go with it, and nobody changes its rules in place.    *)
(***************************************************************************)
EXTENDS Integers, FiniteSets, FiniteSetsExt

CONSTANTS
    Definitions,    \* ScrollDefinitions: [family, version, chains]
    Chains

ScrollAssumption == \A d \in Definitions : d.version \in Int

AnyChain == "*"

VARIABLES
    scrolls,        \* definition registered -> its status
    composite,      \* a CompositeScroll: a set of definitions, {} for none
    proposal,       \* the definitions that the last proposal refers to
    listing         \* list_by_chain: [chain, families, of], "of" the registry it was taken from

vars == <<scrolls, composite, proposal, listing>>

Families == {d.family : d \in Definitions}
NoListing == [chain |-> "", families |-> {}, of |-> << >>]

Init == scrolls = << >> /\ composite = {} /\ proposal = {} /\ listing = NoListing

-----------------------------------------------------------------------------
\* is_active: deprecated versions are not.
Active(reg, family) == {d \in DOMAIN reg : d.family = family /\ reg[d] \in {"DRAFT", "VALIDATED"}}

\* get without a version: the highest active one.
Latest(reg, family) == CHOOSE d \in Active(reg, family) : \A e \in Active(reg, family) : e.version <= d.version

\* is_compatible_with_chain.
Compatible(d, chain) == d.chains \cap {chain, AnyChain} # {}

\* register: a version is registered once.
Register(d) ==
    /\ \A e \in DOMAIN scrolls : <<e.family, e.version>> # <<d.family, d.version>>
    /\ scrolls' = [e \in DOMAIN scrolls \cup {d} |-> IF e = d THEN "DRAFT" ELSE scrolls[e]]
    /\ UNCHANGED <<composite, proposal, listing>>

\* validate and deprecate, from any status.
Validate(d) ==
    /\ d \in DOMAIN scrolls
    /\ scrolls' = [scrolls EXCEPT ![d] = "VALIDATED"]
    /\ UNCHANGED <<composite, proposal, listing>>
Deprecate(d) ==
    /\ d \in DOMAIN scrolls
    /\ scrolls' = [scrolls EXCEPT ![d] = "DEPRECATED"]
    /\ UNCHANGED <<composite, proposal, listing>>

\* propose: of the version named, if it is active, or of the latest.
Propose(family) ==
    /\ Active(scrolls, family) # {}
    /\ proposal' = {Latest(scrolls, family)}
    /\ UNCHANGED <<scrolls, composite, listing>>
ProposeVersion(d) ==
    /\ d \in Active(scrolls, d.family)
    /\ proposal' = {d}
    /\ UNCHANGED <<scrolls, composite, listing>>

\* compose: the latest of each family; a family without an active version is a KeyError.
Compose(families) ==
    /\ families # {} /\ \A f \in families : Active(scrolls, f) # {}
    /\ composite' = {Latest(scrolls, f) : f \in families}
    /\ UNCHANGED <<scrolls, proposal, listing>>

\* CompositeScroll.propose holds definitions and asks the registry nothing.
ProposeComposite ==
    /\ composite # {}
    /\ proposal' = composite
    /\ UNCHANGED <<scrolls, composite, listing>>

\* Mutated form: a family is listed when any active version of it fits the chain.
ListByChain_AnyVersion(chain) ==
    /\ listing' = [chain |-> chain, of |-> scrolls,
                   families |-> {f \in Families : \E d \in Active(scrolls, f) : Compatible(d, chain)}]
    /\ UNCHANGED <<scrolls, composite, proposal>>

\* list_by_chain: the families whose latest version fits the chain.
ListByChain(chain) ==
    /\ listing' = [chain |-> chain, of |-> scrolls,
                   families |-> {f \in Families : Active(scrolls, f) # {} /\ Compatible(Latest(scrolls, f), chain)}]
    /\ UNCHANGED <<scrolls, composite, proposal>>

Next ==
    \/ \E d \in Definitions : Register(d) \/ Validate(d) \/ Deprecate(d) \/ ProposeVersion(d)
    \/ (\E f \in Families : Propose(f)) \/ (\E fs \in SUBSET Families : Compose(fs)) \/ ProposeComposite
    \/ \E c \in Chains : ListByChain(c)

-----------------------------------------------------------------------------
\* What a listing offers can be proposed on its chain, as long as nothing
\* later deprecates an offered version or registers a newer one: the
\* proposal of a listed family fits the chain after any other change of the registry.
ListingServes ==
    \A f \in listing.families :
        (/\ \A d \in Active(listing.of, f) : d \in Active(scrolls, f)
         /\ \A d \in Active(scrolls, f) : d.version <= Max({e.version : e \in Active(listing.of, f)}))
        => Compatible(Latest(scrolls, f), listing.chain)
=============================================================================
