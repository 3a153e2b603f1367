--------------------------- MODULE AtomicRegistry ---------------------------
(***************************************************************************)
(* What the agent registry promises its callers: one image, which comes to *)
(* be whole, is never lost again, and is changed only by whole mutations   *)
(* and by the default agent a boot adds when no agent can run, each of     *)
(* them computed from the image it replaces.  Nothing of crashes,          *)
(* journals, staging, installation or several processes is visible.        *)
(* AgentRegistry implements this module (ImplementsAtomicRegistry).        *)
(***************************************************************************)
CONSTANTS Agents,      \* agent ids
          Profiles,    \* contents of agent.yaml and of subagents.yaml
          Absent       \* a path with nothing in it; no registry

VARIABLE img           \* [profiles, sub, listed, default], or Absent

\* The ids that have a profile.
Ids(i) == {a \in Agents : i.profiles[a] # Absent}

Images == [profiles : [Agents -> Profiles \cup {Absent}], sub : Profiles,
           listed : SUBSET Agents, default : Agents]

\* The mutations of registry.rs, as what they do to an image i.
Created(i) ==
    {[i EXCEPT !.profiles[a] = v, !.listed = @ \cup {a}] :
        a \in Agents \ Ids(i), v \in Profiles}

Updated(i) == {[i EXCEPT !.profiles[a] = v] : a \in Ids(i), v \in Profiles}

DefaultSet(i) == {[i EXCEPT !.default = a] : a \in Ids(i)}

SubagentsSet(i) == {[i EXCEPT !.sub = v] : v \in Profiles}

\* The last agent stays; when the default goes, another listed agent takes over.
Deleted(i) ==
    {[i EXCEPT !.profiles[d[1]] = Absent, !.listed = @ \ {d[1]}, !.default = d[2]] :
        d \in {e \in Ids(i) \X Ids(i) :
                 /\ e[1] # e[2]
                 /\ i.default # e[1] => e[2] = i.default}}

Mutations(i) == Created(i) \cup Updated(i) \cup DefaultSet(i)
                  \cup SubagentsSet(i) \cup Deleted(i)

\* The repair of bootstrap.rs: one more agent, which becomes the default.
Appended(i) ==
    {[i EXCEPT !.profiles[a] = v, !.listed = @ \cup {a}, !.default = a] :
        a \in Agents \ Ids(i), v \in Profiles}

WellFormed(i) == i \in Images /\ i.listed = Ids(i) /\ i.default \in Ids(i)

Init == img = Absent \/ WellFormed(img)

Bootstrap == img = Absent /\ WellFormed(img')

Mutate == img # Absent /\ img' \in Mutations(img)

Repair == img # Absent /\ img' \in Appended(img)

Next == Bootstrap \/ Mutate \/ Repair

Spec == Init /\ [][Next]_img
=============================================================================
