--------------------------------- MODULE Kmm ---------------------------------
(***************************************************************************)
(* The slab allocator as a whole, kernel/kernel/mm/kmm.c: a cache of large *)
(* objects (U) and the two caches of small objects it lives on,            *)
(* CACHES.slabs (S), where its struct kmm_slab come from, and              *)
(* CACHES.large_bufctls (B), where a struct bufctl_large comes from for    *)
(* every free buffer.  Each is a SlabCache; here is what happens between   *)
(* them, and between them and the heap: the steps of one call, the page    *)
(* fault at the first write to a new page and the trim that it may cause.  *)
(*                                                                         *)
(* A slab of U is named by its struct kmm_slab, a slab of B or S by its    *)
(* page.  Slab s holds an object of S; buffer o of s, when it is free,     *)
(* holds an object of B: s and <<s, o>> are the holders of S and B.        *)
(***************************************************************************)
EXTENDS Integers, FiniteSets

CONSTANTS
  Slab,              \* names for the slabs of U
  HeapPage,          \* the pages of the kernel heap
  UCap, BCap, SCap,  \* slab_capacity of the caches
  ShortInFree,       \* whether frames may run out while an object is being freed
  Holder,            \* the variables of the callers that hold an object of U
  None               \* nothing

ASSUME ShortInFreeAssumption == ShortInFree \in BOOLEAN
ASSUME CapacityAssumption == UCap \in Nat \ {0} /\ BCap \in Nat \ {0} /\ SCap \in Nat \ {0}
ASSUME NoneAssumption ==
  /\ None \notin Slab /\ None \notin HeapPage /\ None \notin Holder
  /\ None \notin Slab \X (1 .. UCap)
  /\ None \notin HeapPage \X (1 .. BCap) /\ None \notin HeapPage \X (1 .. SCap)

VARIABLES
  uEmpty, uPartial, uFull, uInuse, uFree, uMade, uHeld, uGrow, uFreeing, uFault,
  bEmpty, bPartial, bFull, bInuse, bFree, bMade, bHeld, bGrow, bFault,
  sEmpty, sPartial, sFull, sInuse, sFree, sMade, sHeld, sGrow, sFault,
  pageOf,     \* pageOf[s]: the page field of slab s of U, or None
  stage,      \* what the call in progress is doing
  newSlab,    \* the slab of U that get_new_slab is creating, or None
  newPage,    \* the page that page_alloc returned, before its first write, or None
  trimming,   \* the cache that kmm_cache_trim_all has come to, or "no"
  trimmed,    \* whether the page fault on newPage has trimmed, and whether to any effect
  panic,      \* what has stopped the kernel
  alive,      \* alive of the three caches: none of them is destroyed here
  noFreeing   \* freeing of B and S, which is None in a cache of small objects

uVars == <<uEmpty, uPartial, uFull, uInuse, uFree, uMade, uHeld, uGrow, uFreeing, alive, uFault>>
bVars == <<bEmpty, bPartial, bFull, bInuse, bFree, bMade, bHeld, bGrow, noFreeing, alive, bFault>>
sVars == <<sEmpty, sPartial, sFull, sInuse, sFree, sMade, sHeld, sGrow, noFreeing, alive, sFault>>
vars == <<uVars, bVars, sVars, pageOf, stage, newSlab, newPage, trimming, trimmed, panic>>

U == INSTANCE SlabCache WITH
       Capacity <- UCap, Large <- TRUE, TrimInFree <- ShortInFree,
       empty <- uEmpty, partial <- uPartial, full <- uFull, inuse <- uInuse, free <- uFree,
       made <- uMade, held <- uHeld, grow <- uGrow, freeing <- uFreeing,
       fault <- uFault

B == INSTANCE SlabCache WITH
       Slab <- HeapPage, Holder <- Slab \X (1 .. UCap),
       Capacity <- BCap, Large <- FALSE, TrimInFree <- TRUE,
       empty <- bEmpty, partial <- bPartial, full <- bFull, inuse <- bInuse, free <- bFree,
       made <- bMade, held <- bHeld, grow <- bGrow, freeing <- noFreeing,
       fault <- bFault

S == INSTANCE SlabCache WITH
       Slab <- HeapPage, Holder <- Slab,
       Capacity <- SCap, Large <- FALSE, TrimInFree <- TRUE,
       empty <- sEmpty, partial <- sPartial, full <- sFull, inuse <- sInuse, free <- sFree,
       made <- sMade, held <- sHeld, grow <- sGrow, freeing <- noFreeing,
       fault <- sFault

\* The pages that the heap has given out.
Used == (B!Live \cup S!Live \cup {pageOf[s] : s \in Slab} \cup {newPage}) \ {None}

\* Whether mm_alloc_page may fail in a page fault, and whether it may succeed.  The frames
\* are shared with the rest of the kernel, so the first attempt is left open.  The second one
\* succeeds exactly when the trim in between has given a page back.
FrameMayLack ==
  \/ trimmed = "nothing"
  \/ trimmed = "no" /\ (stage = "bufctl" => ShortInFree)
FrameMayBeLeft == trimmed \in {"no", "some"}

Running == panic = "no" /\ ~uFault /\ ~bFault /\ ~sFault
At(place) == Running /\ trimming = "no" /\ stage = place

\* kmm_init, and the creation of U
Init ==
  /\ U!Init /\ B!Init /\ S!Init
  /\ pageOf = [s \in Slab |-> None]
  /\ stage = "idle" /\ newSlab = None /\ newPage = None
  /\ trimming = "no" /\ trimmed = "no" /\ panic = "no"

-----------------------------------------------------------------------------
(* page_alloc and the first write to the page *)

\* A cache has found no free buffer and needs a page: B or S to grow, or U for its
\* new slab.
NeedsPage ==
  /\ Running /\ trimming = "no"
  /\ sGrow # None \/ bGrow # None \/ stage = "page"

\* page_alloc returns page p.
PageAlloc(p) ==
  /\ NeedsPage /\ newPage = None
  /\ p \notin Used
  /\ newPage' = p /\ trimmed' = "no"
  /\ UNCHANGED <<uVars, bVars, sVars, pageOf, stage, newSlab, trimming, panic>>

\* Mutant of PageAllocFails: slab_create_large keeps its slab object.
PageAllocFailsKept ==
  /\ NeedsPage /\ newPage = None
  /\ Used = HeapPage
  /\ stage = "page"
  /\ U!GrowFail
  /\ stage' = "idle" /\ newSlab' = None
  /\ UNCHANGED <<bVars, sVars, panic, pageOf, newPage, trimming, trimmed>>

\* page_alloc returns NULL.  slab_create_large gives its slab object back when there is
\* no page for the slab; it uses a bufctl without looking whether it got one.
PageAllocFails ==
  /\ NeedsPage /\ newPage = None
  /\ Used = HeapPage
  /\ \/ /\ sGrow # None
        /\ S!GrowFail /\ U!GrowFail
        /\ stage' = "idle" /\ newSlab' = None
        /\ UNCHANGED <<bVars, panic>>
     \/ /\ stage = "page"
        /\ S!Free(newSlab) /\ U!GrowFail
        /\ stage' = "idle" /\ newSlab' = None
        /\ UNCHANGED <<bVars, panic>>
     \/ /\ bGrow # None
        /\ B!GrowFail
        /\ panic' = "NULL bufctl"
        /\ UNCHANGED <<uVars, sVars, stage, newSlab>>
  /\ UNCHANGED <<pageOf, newPage, trimming, trimmed>>

\* The write to the new page succeeds, at once or after the page fault.
PageWritten ==
  /\ NeedsPage /\ newPage # None /\ FrameMayBeLeft
  /\ \/ /\ sGrow # None
        /\ S!GrowEnd(newPage)
        /\ stage' = "page"
        /\ UNCHANGED <<uVars, bVars, pageOf>>
     \/ /\ bGrow # None
        /\ B!GrowEnd(newPage)
        /\ UNCHANGED <<uVars, sVars, pageOf, stage>>
     \/ /\ stage = "page"
        /\ pageOf' = [pageOf EXCEPT ![newSlab] = newPage]
        /\ stage' = "bufctls"
        /\ UNCHANGED <<uVars, bVars, sVars>>
  /\ newPage' = None /\ trimmed' = "no"
  /\ UNCHANGED <<newSlab, trimming, panic>>

\* Mutant of PageFault: the handler trims again and again.
PageFaultForever ==
  /\ NeedsPage /\ newPage # None /\ FrameMayLack
  /\ trimming' = "U" /\ trimmed' = "nothing"
  /\ UNCHANGED <<panic, uVars, bVars, sVars, pageOf, stage, newSlab, newPage>>

\* chunk_pgfault_handler finds no frame: it trims all caches, and gives up the second time.
PageFault ==
  /\ NeedsPage /\ newPage # None /\ FrameMayLack
  /\ IF trimmed = "no"
     THEN trimming' = "U" /\ trimmed' = "nothing" /\ UNCHANGED panic
     ELSE panic' = "Couldn't trim enough space" /\ UNCHANGED <<trimming, trimmed>>
  /\ UNCHANGED <<uVars, bVars, sVars, pageOf, stage, newSlab, newPage>>

-----------------------------------------------------------------------------
(* kmm_cache_alloc(U) *)

\* There is a slab with a free buffer: object_alloc gives the buffer's bufctl back.
Alloc(h, s) ==
  /\ At("idle")
  /\ U!AllocExisting(h, s)
  /\ B!Free(uHeld'[h])
  /\ UNCHANGED <<sVars, pageOf, stage, newSlab, newPage, trimming, trimmed, panic>>

\* There is none: slab_create_large.
AllocNewSlab(h, s) ==
  /\ At("idle")
  /\ sHeld[s] = None
  /\ U!GrowBegin(h)
  /\ stage' = "slab" /\ newSlab' = s
  /\ UNCHANGED <<bVars, sVars, pageOf, newPage, trimming, trimmed, panic>>

\* Its slab object: kmm_cache_alloc(&CACHES.slabs).
GetSlabObject ==
  /\ At("slab") /\ sGrow = None
  /\ \/ \E p \in HeapPage : S!AllocExisting(newSlab, p) /\ stage' = "page"
     \/ S!GrowBegin(newSlab) /\ UNCHANGED stage
  /\ UNCHANGED <<uVars, bVars, pageOf, newSlab, newPage, trimming, trimmed, panic>>

\* kmm_cache_alloc(&CACHES.large_bufctls) for a buffer x of U.
GetBufctl(x) ==
  /\ bGrow = None /\ bHeld[x] = None
  /\ (\E p \in HeapPage : B!AllocExisting(x, p)) \/ B!GrowBegin(x)
  /\ UNCHANGED <<uVars, sVars, pageOf, stage, newSlab, newPage, trimming, trimmed, panic>>

\* The bufctls of the new slab, one buffer after the other.
GetNewBufctl(o) ==
  /\ At("bufctls")
  /\ \A i \in 1 .. o - 1 : bHeld[<<newSlab, i>>] # None
  /\ GetBufctl(<<newSlab, o>>)

\* The slab is complete: object_alloc takes one of its buffers.
NewSlabDone ==
  /\ At("bufctls") /\ bGrow = None
  /\ \A o \in 1 .. UCap : bHeld[<<newSlab, o>>] # None
  /\ U!GrowEnd(newSlab)
  /\ B!Free(uHeld'[uGrow])
  /\ stage' = "idle" /\ newSlab' = None
  /\ UNCHANGED <<sVars, pageOf, newPage, trimming, trimmed, panic>>

-----------------------------------------------------------------------------
(* kmm_cache_free(U) *)

\* The slab changes lists, then object_free gets a bufctl.
Free(h) ==
  /\ At("idle")
  /\ U!Free(h)
  /\ stage' = "bufctl"
  /\ UNCHANGED <<bVars, sVars, pageOf, newSlab, newPage, trimming, trimmed, panic>>

GetFreeBufctl == At("bufctl") /\ GetBufctl(uFreeing)

\* The bufctl is put on the slab's list of free buffers.
FreeDone ==
  /\ At("bufctl") /\ bGrow = None /\ bHeld[uFreeing] # None
  /\ U!FreeEnd
  /\ stage' = "idle"
  /\ UNCHANGED <<bVars, sVars, pageOf, newSlab, newPage, trimming, trimmed, panic>>

-----------------------------------------------------------------------------
(* kmm_cache_trim_all: the caches in the order of ALLOCATED_CACHES, the last
   registered one first.  It is called by the page fault, or from outside. *)

TrimAll ==
  /\ At("idle")
  /\ stage' = "trim" /\ trimming' = "U"
  /\ UNCHANGED <<uVars, bVars, sVars, pageOf, newSlab, newPage, trimmed, panic>>

PageGivenBack == trimmed' = IF trimmed = "nothing" THEN "some" ELSE trimmed

\* free_large_buffers gives back the bufctl of a buffer of an empty slab.
TrimBufctl(s, o) ==
  /\ Running /\ trimming = "U"
  /\ s \in uEmpty /\ bHeld[<<s, o>>] # None /\ o \in uFree[s]
  /\ B!Free(<<s, o>>)
  /\ UNCHANGED <<uVars, sVars, pageOf, stage, newSlab, newPage, trimming, trimmed, panic>>

\* When the slab has no bufctls left, slab_destroy gives its slab object and its page back.
TrimSlab(s) ==
  /\ Running /\ trimming = "U"
  /\ s \in uEmpty /\ \A o \in uFree[s] : bHeld[<<s, o>>] = None
  /\ U!Trim(s) /\ S!Free(s)
  /\ pageOf' = [pageOf EXCEPT ![s] = None]
  /\ PageGivenBack
  /\ UNCHANGED <<bVars, stage, newSlab, newPage, trimming, panic>>

\* The slabs of the caches of small objects.
TrimSmall(p) ==
  /\ Running
  /\ \/ trimming = "B" /\ B!Trim(p) /\ UNCHANGED sVars
     \/ trimming = "S" /\ S!Trim(p) /\ UNCHANGED bVars
  /\ PageGivenBack
  /\ UNCHANGED <<uVars, pageOf, stage, newSlab, newPage, trimming, panic>>

\* Mutant of NextCache: the caches of small objects are not registered.
NextLargeCache == "no"

\* The next cache, or the return to the caller.
NextCache ==
  CASE trimming = "U" -> "B"
    [] trimming = "B" -> "S"
    [] trimming = "S" -> "no"

TrimNextCache ==
  /\ Running
  /\ \/ trimming = "U" /\ uEmpty = {}
     \/ trimming = "B" /\ bEmpty = {}
     \/ trimming = "S" /\ sEmpty = {}
  /\ trimming' = NextCache
  /\ stage' = IF trimming' = "no" /\ stage = "trim" THEN "idle" ELSE stage
  /\ UNCHANGED <<uVars, bVars, sVars, pageOf, newSlab, newPage, trimmed, panic>>

-----------------------------------------------------------------------------
\* The steps that start a call, and those of a call in progress.
Call ==
  \/ \E h \in Holder : Free(h) \/ \E s \in Slab : Alloc(h, s) \/ AllocNewSlab(h, s)
  \/ TrimAll

Work ==
  \/ \E p \in HeapPage : PageAlloc(p) \/ TrimSmall(p)
  \/ PageAllocFails \/ PageWritten \/ PageFault
  \/ GetSlabObject \/ NewSlabDone \/ GetFreeBufctl \/ FreeDone \/ TrimNextCache
  \/ \E o \in 1 .. UCap : GetNewBufctl(o) \/ \E s \in Slab : TrimBufctl(s, o)
  \/ \E s \in Slab : TrimSlab(s)

Next == Call \/ Work

\* The processor goes on with a call that is in progress.
Spec == Init /\ [][Next]_vars /\ WF_vars(Work)

-----------------------------------------------------------------------------
(* Properties *)

\* The three caches are well typed, and so is the state of the call.
TypeOK ==
  /\ U!TypeOK /\ B!TypeOK /\ S!TypeOK
  /\ pageOf \in [Slab -> HeapPage \cup {None}]
  /\ stage \in {"idle", "slab", "page", "bufctls", "bufctl", "trim"}
  /\ newSlab \in Slab \cup {None} /\ newPage \in HeapPage \cup {None}
  /\ trimming \in {"no", "U", "B", "S"} /\ trimmed \in {"no", "nothing", "some"}
  /\ panic \in {"no", "NULL bufctl", "Couldn't trim enough space"}

\* Between calls, the bufctls in use are those of the free buffers of U, and the slab
\* objects in use are the slabs of U, each with a page of its own: no path through the nested
\* calls, failed ones included, leaks one of them or gives one back twice.
MetadataBalanced ==
  stage = "idle" /\ panic = "no" =>
    /\ \A s \in Slab, o \in 1 .. UCap :
         bHeld[<<s, o>>] # None <=> s \in U!Live /\ o \in uFree[s]
    /\ \A s \in Slab : /\ sHeld[s] # None <=> s \in U!Live
                       /\ pageOf[s] # None <=> s \in U!Live
    /\ \A s, t \in U!Live : s # t => pageOf[s] # pageOf[t]

\* The caches stay sound while they use each other: no kassert fails, no slab is used
\* after it was destroyed, and no object or bufctl is lost, leaked or held twice.  All of it is well typed.
CachesSound ==
  /\ TypeOK
  /\ MetadataBalanced
  /\ U!NoFault /\ B!NoFault /\ S!NoFault
  /\ U!BuffersAccountedFor /\ B!BuffersAccountedFor /\ S!BuffersAccountedFor

\* No slab is used after it was freed.
NoUseAfterFree == U!NoFault /\ B!NoFault /\ S!NoFault

\* kmm_cache_trim_all leaves no empty slab in any cache, also not in those that receive the
\* bufctls and slab objects of other caches while it runs; when no object is in use the
\* allocator has no page left.
TrimAllComplete ==
  [][trimming # "no" /\ trimming' = "no" =>
       /\ uEmpty = {} /\ bEmpty = {} /\ sEmpty = {}
       /\ stage = "trim" /\ (\A h \in Holder : uHeld[h] = None) => Used = {}]_vars

\* Every call returns or stops the kernel, whatever page faults and trims it meets.
CallsReturn == stage # "idle" ~> (stage = "idle" \/ ~Running)

=============================================================================
