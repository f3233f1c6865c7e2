------------------------------- MODULE ImageCycle -------------------------------
(***************************************************************************)
(* The tick that keeps the pinned evaluator image in the store of a runner *)
(* host (scripts/runner-image-cycle.sh), beside people and jobs that pull, *)
(* tag and remove images in the same store between any two of its calls.   *)
(*                                                                         *)
(* The store is the set of rows `podman images` would list: an image under *)
(* the configured repository, with a name or bare, or elsewhere; and       *)
(* whether the listing shows the recorded digest for it, which it need not *)
(* do even for the pinned bytes.  gone is history: somebody else has       *)
(* removed the pinned image since the tick last looked for it.             *)
(***************************************************************************)
EXTENDS Integers

CONSTANTS
    Pin,       \* the image of the recorded bytes
    OldImages  \* other images

VARIABLES store, tick, gone

imageVars == <<store, tick, gone>>

Images == OldImages \cup {Pin}
Row(image, place, recorded) == [id |-> image, place |-> place, recorded |-> recorded]

IdsOf(rows) == {row.id : row \in rows}

\* The digest-qualified reference resolves in the store.
PinHeld == \E row \in store : row.id = Pin /\ row.place # "elsewhere"

At(pc) == tick.pc = pc
Resting == [pc |-> "rest", exit |-> -1, todo |-> {}]
Exits(code) == tick' = [Resting EXCEPT !.exit = code]
Goes(pc) == tick' = [tick EXCEPT !.pc = pc]

-----------------------------------------------------------------------------
ImageInit ==
    /\ store \in SUBSET {Row(image, "bare", FALSE) : image \in OldImages}
    /\ tick = Resting
    /\ gone = FALSE

(* Other users of the store *)

\* A pull, a build or a tag; any image can get a further name, here or in another repository.
SomebodyAdds ==
    /\ \/ \E image \in Images, place \in {"named", "elsewhere"} :
             store' = store \cup {Row(image, place, FALSE)}
       \/ \E recorded \in BOOLEAN : store' = store \cup {Row(Pin, "bare", recorded)}
    /\ UNCHANGED <<tick, gone>>

SomebodyRemoves ==
    /\ \E image \in IdsOf(store) :
          /\ store' = {row \in store : row.id # image}
          /\ gone' = (gone \/ image = Pin)
    /\ UNCHANGED tick

(* The tick *)

\* Bad configuration, no podman, no store directory, a podman that cannot answer for it or
\* answers with another one: no image is touched, and no store is made.
Refuse ==
    /\ At("rest")
    /\ \E code \in {1, 2, 5, 6, 7} : Exits(code)
    /\ UNCHANGED <<store, gone>>

Begin ==
    /\ At("rest")
    /\ tick' = [Resting EXCEPT !.pc = IF PinHeld THEN "verify" ELSE "pull"]
    /\ UNCHANGED <<store, gone>>

Pull ==
    /\ At("pull")
    /\ \/ /\ \E recorded \in BOOLEAN :
                store' = store \cup {Row(Pin, "bare", recorded)}
          /\ Goes("verify")
       \/ Exits(3) /\ UNCHANGED store
    /\ UNCHANGED gone

\* The identity, by inspect; then the end, if pruning is off.
Verify ==
    /\ At("verify")
    /\ IF PinHeld THEN Goes("list") \/ Exits(0) ELSE Exits(4)
    /\ gone' = FALSE
    /\ UNCHANGED store

Superseded(row) == row.place = "bare" /\ ~row.recorded

Spared(rows) == IdsOf({row \in rows : ~Superseded(row)})

\* An image goes only if each of its rows is that of a superseded build.
ReapSet(rows) == IdsOf({row \in rows : Superseded(row)}) \ Spared(rows)

\* A listing that fails is an empty one.
List ==
    /\ At("list")
    /\ \E rows \in {store, {}} :
          tick' = [tick EXCEPT !.pc = "reap", !.todo = ReapSet(rows)]
    /\ UNCHANGED <<store, gone>>

\* podman rmi takes every row of an image, or none if it is in use.
Reap(image) ==
    /\ At("reap")
    /\ image \in tick.todo
    /\ tick' = [tick EXCEPT !.todo = @ \ {image}]
    /\ store' = {row \in store : row.id # image} \/ UNCHANGED store
    /\ UNCHANGED gone

\* Defect: the prune is trusted.
TrustPrune ==
    /\ At("reap")
    /\ tick.todo = {}
    /\ Exits(0)
    /\ UNCHANGED <<store, gone>>

Recheck ==
    /\ At("reap")
    /\ tick.todo = {}
    /\ IF PinHeld THEN Exits(0) ELSE Exits(4)
    /\ gone' = FALSE
    /\ UNCHANGED store

TickDies ==
    /\ ~At("rest")
    /\ tick' = Resting
    /\ UNCHANGED <<store, gone>>

ImageNext ==
    \/ SomebodyAdds \/ SomebodyRemoves
    \/ Refuse \/ Begin \/ Pull \/ Verify \/ List
    \/ \E image \in Images : Reap(image)
    \/ Recheck \/ TickDies

ImageSpec == ImageInit /\ [][ImageNext]_imageVars

-----------------------------------------------------------------------------
\* "exit 0 is the one claim this script makes": the pinned image is in the store, whatever
\* the listing called it and the prune took, until somebody else removes it
\* (runner-image-cycle.sh:222-237).
ZeroHoldsThePin == tick.exit = 0 => PinHeld \/ gone
================================================================================
