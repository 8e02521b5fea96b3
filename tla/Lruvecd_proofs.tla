--------------------------- MODULE Lruvecd_proofs ---------------------------
(***************************************************************************)
(* Proofs about Lruvecd for every set of pages of any sizes, every set of  *)
(* reclaimers and every SHRINK_LRUVECD_HIGH.                               *)
(***************************************************************************)
EXTENDS Lruvecd, Integers, TLAPS

(* The count of base pages is additive, so it is monotone.                  *)
LEMMA Count ==
  /\ NrPages[{}] = 0
  /\ \A S \in SUBSET Pages : NrPages[S] \in Nat
  /\ \A S, T \in SUBSET Pages :
       S \cap T = {} => NrPages[S \cup T] = NrPages[S] + NrPages[T]
BY PageAssumption

LEMMA CountLess ==
  ASSUME NEW S \in SUBSET Pages, NEW T \in SUBSET Pages, S \subseteq T
  PROVE  NrPages[S] <= NrPages[T]
<1>1. T = S \cup (T \ S) /\ S \cap (T \ S) = {} /\ T \ S \in SUBSET Pages
  OBVIOUS
<1>2. NrPages[T] = NrPages[S] + NrPages[T \ S]
  BY <1>1, Count
<1>3. QED BY <1>1, <1>2, Count

LEMMA InitInv == Init => IInv
<1> SUFFICES ASSUME Init PROVE IInv
  OBVIOUS
<1> USE DEF Init
<1>1. ListsTyped
  BY DEF ListsTyped, ReclaimPc
<1>2. PagesKept
  BY DEF PagesKept, Held
<1>3. ListInv
  BY DEF ListInv
<1>4. PendingInv
  BY Count, HighAssumption DEF PendingInv, BusyPc
<1>5. QED BY <1>1, <1>2, <1>3, <1>4 DEF IInv

(* A step that moves no page.                                               *)
LEMMA StillInv ==
  ASSUME IInv, UNCHANGED <<lru, free, page_list, local, lru_inactive, batch>>,
         ListsTyped', ListInv', PendingInv'
  PROVE  IInv'
<1>1. \A r : Held(r)' = Held(r)
  BY DEF Held
<1>2. PagesKept'
  BY <1>1 DEF IInv, PagesKept
<1>3. QED BY <1>2 DEF IInv

LEMMA InitStepInv ==
  ASSUME IInv, InitStep
  PROVE  IInv'
<1> USE DEF InitUnchanged, pageVars, reclaimVars, sharedVars
<1>1. /\ UNCHANGED <<lru, free, page_list, todo, local, pc, lru_inactive, pages, batch, nr_pages>>
      /\ init_pc' = "spawn" => wpc' = "unborn"
      /\ wpc' \in BusyPc <=> wpc \in BusyPc
      /\ wpc' # wpc => wpc \notin BusyPc /\ wpc' \notin BusyPc
  BY DEF InitStep, InitSpawn, InitRegister, InitEnable, InitStop, InitJoin, BusyPc,
     IInv, PendingInv
<1>2. ListsTyped'
  BY <1>1 DEF IInv, ListsTyped
<1>3. ListInv'
  BY <1>1 DEF IInv, ListInv
<1>4. PendingInv'
  BY <1>1 DEF IInv, PendingInv, BusyPc
<1>5. QED BY <1>1, <1>2, <1>3, <1>4, StillInv

LEMMA PassInv ==
  ASSUME IInv, NEW r \in Reclaimers,
         \/ \E p \in Pages : PassOver(r, p)
         \/ StealNotSetUp(r)
         \/ AccountUp(r)
         \/ WakeWorker(r)
  PROVE  IInv'
<1> USE DEF PassOver, StealNotSetUp, AccountUp, WakeWorker, WorkerIdle, initVars, pageVars,
            sharedVars, Goto
<1>1. /\ UNCHANGED <<lru, free, page_list, local, lru_inactive, pages, batch, nr_pages, wpc, init_pc>>
      /\ \A s \in Reclaimers : todo'[s] \subseteq todo[s]
      /\ \A s \in Reclaimers : pc'[s] = pc[s] \/ (pc[s] # "publish" /\ pc'[s] # "publish"
                                                 /\ pc'[s] # "idle" /\ todo[s] = {})
  BY DEF IInv, ListsTyped, ListInv
<1>2. pc' \in [Reclaimers -> ReclaimPc] /\ todo' \in [Reclaimers -> SUBSET Pages]
  BY DEF IInv, ListsTyped, ReclaimPc
<1>3. ListsTyped'
  BY <1>1, <1>2 DEF IInv, ListsTyped
<1>4. ListInv'
  BY <1>1 DEF IInv, ListInv
<1>5. PendingInv'
  BY <1>1 DEF IInv, PendingInv
<1>6. QED BY <1>1, <1>3, <1>4, <1>5, StillInv

LEMMA QuietInv ==
  ASSUME IInv, WorkerLoop \/ WorkerPrepare \/ WorkerCheck \/ WorkerWakes
  PROVE  IInv'
<1> USE DEF WorkerLoop, WorkerPrepare, WorkerCheck, WorkerWakes, WorkerGoto, Quiet,
            initVars, pageVars, reclaimVars, sharedVars
<1>1. /\ UNCHANGED <<lru, free, page_list, todo, local, pc, lru_inactive, pages, batch,
                     nr_pages, init_pc>>
      /\ wpc \notin BusyPc \cup {"unborn"} /\ wpc' \notin BusyPc
  BY DEF BusyPc
<1>2. ListsTyped'
  BY <1>1 DEF IInv, ListsTyped
<1>3. ListInv'
  BY <1>1 DEF IInv, ListInv
<1>4. PendingInv'
  BY <1>1 DEF IInv, PendingInv, BusyPc
<1>5. QED BY <1>1, <1>2, <1>3, <1>4, StillInv

(* Between the shared lists and one reclaimer's own.                        *)
LEMMA OneHolder ==
  ASSUME IInv, NEW r \in Reclaimers,
         \A s \in Reclaimers \ {r} : page_list'[s] = page_list[s] /\ local'[s] = local[s],
         /\ lru' \subseteq Pages /\ free' \subseteq Pages
         /\ lru_inactive' \subseteq Pages /\ batch' \subseteq Pages,
         \A p \in Pages :
           \/ p \in lru \cup free \cup lru_inactive \cup batch \cup Held(r)
           <=> p \in lru' \cup free' \cup lru_inactive' \cup batch' \cup Held(r)',
         Held(r)' \subseteq Pages,
         /\ lru' \cap free' = {} /\ lru_inactive' \cap batch' = {}
         /\ (lru' \cup free') \cap (lru_inactive' \cup batch') = {}
         /\ page_list'[r] \cap local'[r] = {}
         /\ Held(r)' \cap (lru' \cup free' \cup lru_inactive' \cup batch') = {}
  PROVE  PagesKept'
<1> DEFINE Shared == lru \cup free \cup lru_inactive \cup batch
           All == Shared \cup Held(r)
<1>1. \A s \in Reclaimers \ {r} : Held(s)' = Held(s) /\ Held(s) \subseteq Pages
  BY DEF Held, IInv, ListsTyped
<1>2. \A s \in Reclaimers \ {r} : Held(s) \cap All = {}
  BY DEF IInv, PagesKept
<1>3. \A s \in Reclaimers \ {r} :
        Held(s)' \cap (lru' \cup free' \cup lru_inactive' \cup batch' \cup Held(r)') = {}
  BY <1>1, <1>2
<1>4. \A p \in Pages : \/ p \in lru' \cup free' \cup lru_inactive' \cup batch'
                       \/ \E s \in Reclaimers : p \in Held(s)'
  BY <1>1 DEF IInv, PagesKept
<1>5. \A s, t \in Reclaimers : s # t => Held(s)' \cap Held(t)' = {}
  BY <1>1, <1>3 DEF IInv, PagesKept
<1>6. \A s \in Reclaimers \ {r} : page_list'[s] \cap local'[s] = {}
  BY DEF IInv, PagesKept
<1>7. QED BY <1>3, <1>4, <1>5, <1>6 DEF PagesKept

LEMMA IsolateInv ==
  ASSUME IInv, NEW r \in Reclaimers, NEW S \in SUBSET Pages, NEW a \in BOOLEAN,
         Isolate(r, S, a)
  PROVE  IInv'
<1>1. /\ S \subseteq lru /\ pc[r] = "idle" /\ pc' = [pc EXCEPT ![r] = "walk"]
      /\ page_list' = [page_list EXCEPT ![r] = S] /\ todo' = [todo EXCEPT ![r] = S]
      /\ lru' = lru \ S
      /\ UNCHANGED <<free, local, lru_inactive, pages, batch, nr_pages, wpc, init_pc>>
  BY DEF Isolate, Goto, WorkerIdle, initVars, sharedVars
<1>2. /\ page_list[r] = {} /\ local[r] = {}
      /\ page_list'[r] = S /\ local'[r] = {}
  BY <1>1 DEF IInv, ListInv, ListsTyped
<1>3. Held(r) = {} /\ Held(r)' = S
  BY <1>2 DEF Held
<1>4. ListsTyped'
  BY <1>1 DEF IInv, ListsTyped, ReclaimPc
<1>5. ListInv'
  BY <1>1, <1>2 DEF IInv, ListInv, ListsTyped
<1>6. PendingInv'
  BY <1>1 DEF IInv, PendingInv
<1>7. PagesKept'
  <2>1. \A s \in Reclaimers \ {r} : page_list'[s] = page_list[s] /\ local'[s] = local[s]
    BY <1>1 DEF IInv, ListsTyped
  <2>2. /\ lru' \cap free' = {} /\ lru_inactive' \cap batch' = {}
        /\ (lru' \cup free') \cap (lru_inactive' \cup batch') = {}
        /\ Held(r)' \cap (lru' \cup free' \cup lru_inactive' \cup batch') = {}
    BY <1>1, <1>3 DEF IInv, PagesKept
  <2>3. \A p \in Pages :
           p \in lru \cup free \cup lru_inactive \cup batch \cup Held(r)
           <=> p \in lru' \cup free' \cup lru_inactive' \cup batch' \cup Held(r)'
    BY <1>1, <1>3
  <2>4. /\ lru' \subseteq Pages /\ free' \subseteq Pages
        /\ lru_inactive' \subseteq Pages /\ batch' \subseteq Pages
    BY <1>4 DEF ListsTyped
  <2>5. page_list'[r] \cap local'[r] = {} /\ Held(r)' \subseteq Pages
    BY <1>2, <1>3
  <2>6. QED BY <2>1, <2>2, <2>3, <2>4, <2>5, OneHolder
<1>8. QED BY <1>4, <1>5, <1>6, <1>7 DEF IInv

LEMMA ShrinkPageInv ==
  ASSUME IInv, NEW r \in Reclaimers, NEW p \in Pages, NEW contended \in BOOLEAN,
         NEW freed \in BOOLEAN, NEW cleared \in BOOLEAN,
         ShrinkPage(r, p, contended, freed, cleared)
  PROVE  IInv'
<1>1. /\ pc[r] = "walk" /\ p \in todo[r]
      /\ todo' = [todo EXCEPT ![r] = @ \ {p}]
      /\ page_list' = [page_list EXCEPT ![r] = IF freed THEN @ \ {p} ELSE @]
      /\ free' = IF freed THEN free \cup {p} ELSE free
      /\ UNCHANGED <<lru, pc, local, lru_inactive, pages, batch, nr_pages, wpc, init_pc>>
  BY DEF ShrinkPage, WorkerIdle, initVars, sharedVars
<1>2. /\ p \in page_list[r] /\ local[r] = {} /\ local'[r] = {}
      /\ page_list'[r] = IF freed THEN page_list[r] \ {p} ELSE page_list[r]
  BY <1>1 DEF IInv, ListInv, ListsTyped
<1>3. Held(r) = page_list[r] /\ Held(r)' = page_list'[r]
  BY <1>2 DEF Held
<1>4. ListsTyped'
  BY <1>1 DEF IInv, ListsTyped
<1>5. ListInv'
  BY <1>1, <1>2 DEF IInv, ListInv, ListsTyped
<1>6. PendingInv'
  BY <1>1 DEF IInv, PendingInv
<1>7. PagesKept'
  <2>1. \A s \in Reclaimers \ {r} : page_list'[s] = page_list[s] /\ local'[s] = local[s]
    BY <1>1 DEF IInv, ListsTyped
  <2>2. p \notin lru \cup free \cup lru_inactive \cup batch
    BY <1>2, <1>3 DEF IInv, PagesKept
  <2>3. /\ lru' \cap free' = {} /\ lru_inactive' \cap batch' = {}
        /\ (lru' \cup free') \cap (lru_inactive' \cup batch') = {}
        /\ Held(r)' \cap (lru' \cup free' \cup lru_inactive' \cup batch') = {}
    BY <1>1, <1>2, <1>3, <2>2 DEF IInv, PagesKept
  <2>4. \A q \in Pages :
           q \in lru \cup free \cup lru_inactive \cup batch \cup Held(r)
           <=> q \in lru' \cup free' \cup lru_inactive' \cup batch' \cup Held(r)'
    BY <1>1, <1>2, <1>3
  <2>5. /\ lru' \subseteq Pages /\ free' \subseteq Pages
        /\ lru_inactive' \subseteq Pages /\ batch' \subseteq Pages
        /\ Held(r)' \subseteq Pages
    BY <1>3, <1>4 DEF ListsTyped
  <2>6. page_list'[r] \cap local'[r] = {}
    BY <1>2
  <2>7. QED BY <2>1, <2>3, <2>4, <2>5, <2>6, OneHolder
<1>8. QED BY <1>4, <1>5, <1>6, <1>7 DEF IInv

LEMMA StealInv ==
  ASSUME IInv, NEW r \in Reclaimers, NEW seen \in SUBSET Pages, NEW stolen \in SUBSET Pages,
         StealDelayed(r, seen, stolen)
  PROVE  IInv'
<1>1. /\ pc[r] = "walk" /\ todo[r] = {} /\ stolen \subseteq page_list[r]
      /\ pc' = [pc EXCEPT ![r] = IF stolen = {} THEN "return" ELSE "publish"]
      /\ page_list' = [page_list EXCEPT ![r] = @ \ stolen]
      /\ local' = [local EXCEPT ![r] = stolen]
      /\ UNCHANGED <<lru, free, todo, lru_inactive, pages, batch, nr_pages, wpc, init_pc>>
  BY DEF StealDelayed, Cut, Goto, WorkerIdle, initVars, sharedVars
<1>2. /\ local[r] = {} /\ local'[r] = stolen /\ page_list'[r] = page_list[r] \ stolen
  BY <1>1 DEF IInv, ListInv, ListsTyped
<1>3. Held(r)' = Held(r)
  BY <1>1, <1>2 DEF Held
<1>4. ListsTyped'
  BY <1>1 DEF IInv, ListsTyped, ReclaimPc
<1>5. ListInv'
  BY <1>1, <1>2 DEF IInv, ListInv, ListsTyped
<1>6. PendingInv'
  BY <1>1 DEF IInv, PendingInv
<1>7. PagesKept'
  <2>1. \A s \in Reclaimers \ {r} : page_list'[s] = page_list[s] /\ local'[s] = local[s]
    BY <1>1 DEF IInv, ListsTyped
  <2>2. /\ \A s \in Reclaimers : Held(s)' = Held(s)
        /\ \A s \in Reclaimers : page_list'[s] \cap local'[s] = {}
    BY <1>2, <1>3, <2>1 DEF Held, IInv, PagesKept
  <2>3. QED BY <1>1, <2>2 DEF IInv, PagesKept
<1>8. QED BY <1>4, <1>5, <1>6, <1>7 DEF IInv

LEMMA PutBackInv ==
  ASSUME IInv, NEW r \in Reclaimers, PutBack(r)
  PROVE  IInv'
<1>1. /\ pc[r] = "return" /\ pc' = [pc EXCEPT ![r] = "idle"]
      /\ lru' = lru \cup page_list[r]
      /\ page_list' = [page_list EXCEPT ![r] = {}]
      /\ UNCHANGED <<free, todo, local, lru_inactive, pages, batch, nr_pages, wpc, init_pc>>
  BY DEF PutBack, Goto, WorkerIdle, initVars, sharedVars
<1>2. local[r] = {} /\ local'[r] = {} /\ page_list'[r] = {}
  BY <1>1 DEF IInv, ListInv, ListsTyped
<1>3. Held(r) = page_list[r] /\ Held(r)' = {}
  BY <1>2 DEF Held
<1>4. ListsTyped'
  BY <1>1 DEF IInv, ListsTyped, ReclaimPc
<1>5. ListInv'
  <2>1. ASSUME NEW s \in Reclaimers
        PROVE  /\ todo'[s] \subseteq page_list'[s]
               /\ pc'[s] # "publish" => local'[s] = {}
               /\ pc'[s] = "idle" => page_list'[s] = {}
               /\ pc'[s] # "walk" => todo'[s] = {}
    BY <1>1, <1>2 DEF IInv, ListInv, ListsTyped
  <2>2. QED BY <2>1 DEF ListInv
<1>6. PendingInv'
  BY <1>1 DEF IInv, PendingInv
<1>7. PagesKept'
  <2>1. \A s \in Reclaimers \ {r} : page_list'[s] = page_list[s] /\ local'[s] = local[s]
    BY <1>1 DEF IInv, ListsTyped
  <2>2. Held(r) \cap (lru \cup free \cup lru_inactive \cup batch) = {}
    BY DEF IInv, PagesKept
  <2>3. /\ lru' \cap free' = {} /\ lru_inactive' \cap batch' = {}
        /\ (lru' \cup free') \cap (lru_inactive' \cup batch') = {}
        /\ Held(r)' \cap (lru' \cup free' \cup lru_inactive' \cup batch') = {}
    BY <1>1, <1>3, <2>2 DEF IInv, PagesKept
  <2>4. \A q \in Pages :
           q \in lru \cup free \cup lru_inactive \cup batch \cup Held(r)
           <=> q \in lru' \cup free' \cup lru_inactive' \cup batch' \cup Held(r)'
    BY <1>1, <1>3
  <2>5. /\ lru' \subseteq Pages /\ free' \subseteq Pages
        /\ lru_inactive' \subseteq Pages /\ batch' \subseteq Pages
        /\ Held(r)' \subseteq Pages
    BY <1>3, <1>4 DEF ListsTyped
  <2>6. page_list'[r] \cap local'[r] = {}
    BY <1>2
  <2>7. QED BY <2>1, <2>3, <2>4, <2>5, <2>6, OneHolder
<1>8. QED BY <1>4, <1>5, <1>6, <1>7 DEF IInv

LEMMA PublishInv ==
  ASSUME IInv, NEW r \in Reclaimers, Publish(r)
  PROVE  IInv'
<1> DEFINE L == local[r]
<1>1. /\ pc[r] = "publish" /\ local' = [local EXCEPT ![r] = {}]
      /\ UNCHANGED <<lru, free, todo, batch, nr_pages, wpc, init_pc>>
  BY DEF Publish, HandBack, HandOver, Goto, WorkerIdle, initVars, pageVars
<1>2. L \subseteq Pages /\ page_list[r] \subseteq Pages /\ lru_inactive \subseteq Pages
      /\ L \cap lru_inactive = {} /\ L \cap page_list[r] = {} /\ todo[r] = {}
      /\ L \cap (lru \cup free \cup batch) = {}
  BY <1>1 DEF IInv, ListsTyped, ListInv, PagesKept, Held
<1>3. CASE pages + NrPages[L] > High
  <2>1. /\ page_list' = [page_list EXCEPT ![r] = @ \cup L]
        /\ pc' = [pc EXCEPT ![r] = "return"]
        /\ UNCHANGED <<lru_inactive, pages>>
    BY <1>3 DEF Publish, HandBack, Goto, sharedVars
  <2>2. page_list'[r] = page_list[r] \cup L /\ local'[r] = {}
    BY <1>1, <2>1 DEF IInv, ListsTyped
  <2>3. /\ \A s \in Reclaimers : Held(s)' = Held(s) /\ page_list'[s] \cap local'[s] = {}
    BY <1>1, <2>1, <2>2 DEF IInv, ListsTyped, PagesKept, Held
  <2>4. PagesKept'
    BY <1>1, <2>1, <2>3 DEF IInv, PagesKept
  <2>5. ListsTyped'
    BY <1>1, <1>2, <2>1 DEF IInv, ListsTyped, ReclaimPc
  <2>6. ListInv'
    BY <1>1, <1>2, <2>1, <2>2 DEF IInv, ListInv, ListsTyped
  <2>7. PendingInv'
    BY <1>1, <2>1 DEF IInv, PendingInv
  <2>8. QED BY <2>4, <2>5, <2>6, <2>7 DEF IInv
<1>4. CASE ~(pages + NrPages[L] > High)
  <2>1. /\ lru_inactive' = lru_inactive \cup L /\ pages' = pages + NrPages[L]
        /\ page_list' = page_list
        /\ pc' = [pc EXCEPT ![r] = IF account[r] THEN "account" ELSE "wake"]
    BY <1>4 DEF Publish, HandOver, Goto
  <2>2. page_list'[r] = page_list[r] /\ local'[r] = {}
    BY <1>1, <2>1 DEF IInv, ListsTyped
  <2>3. ListsTyped'
    BY <1>1, <1>2, <2>1 DEF IInv, ListsTyped, ReclaimPc
  <2>4. ListInv'
    BY <1>1, <1>2, <2>1, <2>2 DEF IInv, ListInv, ListsTyped
  <2>5. PendingInv'
    <3>1. NrPages[lru_inactive \cup L] = NrPages[lru_inactive] + NrPages[L]
          /\ NrPages[L] \in Nat /\ NrPages[lru_inactive] \in Nat
      BY <1>2, Count
    <3>2. pages + NrPages[L] <= High
      BY <1>4, <3>1, HighAssumption DEF IInv, PendingInv, ListsTyped
    <3>3. pages' = NrPages[lru_inactive]' + (IF wpc' \in BusyPc THEN nr_pages' ELSE 0)
      BY <1>1, <2>1, <3>1 DEF IInv, PendingInv, ListsTyped
    <3>4. QED BY <1>1, <2>1, <3>2, <3>3 DEF IInv, PendingInv
  <2>6. PagesKept'
    <3>1. \A s \in Reclaimers \ {r} : page_list'[s] = page_list[s] /\ local'[s] = local[s]
      BY <1>1, <2>1 DEF IInv, ListsTyped
    <3>2. Held(r) = page_list[r] \cup L /\ Held(r)' = page_list[r]
      BY <2>2 DEF Held
    <3>3. /\ lru' \cap free' = {} /\ lru_inactive' \cap batch' = {}
          /\ (lru' \cup free') \cap (lru_inactive' \cup batch') = {}
          /\ Held(r)' \cap (lru' \cup free' \cup lru_inactive' \cup batch') = {}
      BY <1>1, <1>2, <2>1, <3>2 DEF IInv, PagesKept
    <3>4. \A q \in Pages :
             q \in lru \cup free \cup lru_inactive \cup batch \cup Held(r)
             <=> q \in lru' \cup free' \cup lru_inactive' \cup batch' \cup Held(r)'
      BY <1>1, <2>1, <3>2
    <3>5. /\ lru' \subseteq Pages /\ free' \subseteq Pages
          /\ lru_inactive' \subseteq Pages /\ batch' \subseteq Pages
          /\ Held(r)' \subseteq Pages
      BY <1>2, <2>3, <3>2 DEF ListsTyped
    <3>6. page_list'[r] \cap local'[r] = {}
      BY <2>2
    <3>7. QED BY <3>1, <3>3, <3>4, <3>5, <3>6, OneHolder
  <2>7. QED BY <2>3, <2>4, <2>5, <2>6 DEF IInv
<1>5. QED BY <1>3, <1>4

(* Between the shared lists only.                                           *)
LEMMA SharedInv ==
  ASSUME IInv, UNCHANGED <<page_list, todo, local, pc>>,
         /\ lru' \subseteq Pages /\ free' \subseteq Pages
         /\ lru_inactive' \subseteq Pages /\ batch' \subseteq Pages,
         lru \cup free \cup lru_inactive \cup batch
           = lru' \cup free' \cup lru_inactive' \cup batch',
         /\ lru' \cap free' = {} /\ lru_inactive' \cap batch' = {}
         /\ (lru' \cup free') \cap (lru_inactive' \cup batch') = {},
         nr_pages' \in Nat, PendingInv'
  PROVE  IInv'
<1>1. \A s : Held(s)' = Held(s)
  BY DEF Held
<1>2. PagesKept'
  BY <1>1 DEF IInv, PagesKept
<1>3. ListsTyped' /\ ListInv'
  BY DEF IInv, ListsTyped, ListInv
<1>4. QED BY <1>2, <1>3 DEF IInv

LEMMA FaultInv ==
  ASSUME IInv, NEW p \in Pages, Fault(p)
  PROVE  IInv'
<1>1. /\ p \in free /\ free' = free \ {p} /\ lru' = lru \cup {p}
      /\ UNCHANGED <<page_list, todo, local, pc, lru_inactive, pages, batch, nr_pages, wpc, init_pc>>
  BY DEF Fault, initVars, reclaimVars, sharedVars, workerVars
<1>2. PendingInv'
  BY <1>1 DEF IInv, PendingInv
<1>3. /\ lru' \subseteq Pages /\ free' \subseteq Pages
      /\ lru_inactive' \subseteq Pages /\ batch' \subseteq Pages /\ nr_pages' \in Nat
  BY <1>1 DEF IInv, ListsTyped
<1>4. /\ lru \cup free \cup lru_inactive \cup batch
           = lru' \cup free' \cup lru_inactive' \cup batch'
      /\ lru' \cap free' = {} /\ lru_inactive' \cap batch' = {}
      /\ (lru' \cup free') \cap (lru_inactive' \cup batch') = {}
  BY <1>1 DEF IInv, PagesKept
<1>5. QED BY <1>1, <1>2, <1>3, <1>4, SharedInv

LEMMA TakeInv ==
  ASSUME IInv, WorkerTake
  PROVE  IInv'
<1>1. /\ wpc = "take" /\ wpc' = IF lru_inactive = {} THEN "loop" ELSE "reclaim"
      /\ batch' = lru_inactive /\ lru_inactive' = {} /\ nr_pages' = NrPages[lru_inactive]
      /\ UNCHANGED <<lru, free, page_list, todo, local, pc, pages, init_pc>>
  BY DEF WorkerTake, WorkerGoto, initVars, pageVars, reclaimVars
<1>2. batch = {} /\ lru_inactive \in SUBSET Pages /\ nr_pages' \in Nat
      /\ pages = NrPages[lru_inactive]
  BY <1>1, Count DEF IInv, PendingInv, ListsTyped, BusyPc
<1>3. PendingInv'
  <2>1. pages' = pages /\ pages <= High /\ init_pc' # "spawn"
    BY <1>1 DEF IInv, PendingInv, sharedVars
  <2>2. NrPages[{}] = 0 /\ NrPages[lru_inactive] \in Nat /\ NrPages[lru_inactive'] = 0
    BY <1>1, <1>2, Count
  <2>3. CASE lru_inactive = {}
    <3>1. wpc' = "loop" /\ batch' = {} /\ pages' = 0
      BY <1>1, <1>2, <2>1, <2>2, <2>3
    <3>2. QED BY <2>1, <2>2, <3>1 DEF PendingInv, BusyPc
  <2>4. CASE lru_inactive # {}
    <3>1. wpc' = "reclaim" /\ NrPages[batch'] = nr_pages' /\ pages' = nr_pages'
      BY <1>1, <1>2, <2>1, <2>4
    <3>2. /\ nr_pages' \in Nat /\ NrPages[lru_inactive'] \in Nat
          /\ NrPages[lru_inactive'] = 0
      BY <1>2, <2>2
    <3>3. pages' = NrPages[lru_inactive'] + nr_pages'
      <4>1. \A a, b \in Nat : a = 0 => a + b = b
        OBVIOUS
      <4>2. QED BY <3>1, <3>2, <4>1, Zenon
    <3>4. NrPages[batch'] <= nr_pages'
      BY <3>1, <3>2
    <3>5. pages' <= High
      BY <2>1
    <3>6. wpc' \in BusyPc
      BY <3>1 DEF BusyPc
    <3>7. QED BY <2>1, <3>1, <3>3, <3>4, <3>5, <3>6 DEF PendingInv
  <2>5. QED BY <2>3, <2>4
<1>4. /\ lru' \subseteq Pages /\ free' \subseteq Pages
      /\ lru_inactive' \subseteq Pages /\ batch' \subseteq Pages
  BY <1>1, <1>2 DEF IInv, ListsTyped
<1>5. /\ lru \cup free \cup lru_inactive \cup batch
           = lru' \cup free' \cup lru_inactive' \cup batch'
      /\ lru' \cap free' = {} /\ lru_inactive' \cap batch' = {}
      /\ (lru' \cup free') \cap (lru_inactive' \cup batch') = {}
  BY <1>1, <1>2 DEF IInv, PagesKept
<1>6. QED BY <1>1, <1>2, <1>3, <1>4, <1>5, SharedInv

LEMMA ReclaimInv ==
  ASSUME IInv, NEW p \in Pages, NEW contended \in BOOLEAN, NEW freed \in BOOLEAN,
         NEW cleared \in BOOLEAN, WorkerReclaim(p, contended, freed, cleared)
  PROVE  IInv'
<1>1. /\ wpc = "reclaim" /\ p \in batch /\ batch' = batch \ {p}
      /\ free' = IF freed THEN free \cup {p} ELSE free
      /\ lru' = IF freed THEN lru ELSE lru \cup {p}
      /\ UNCHANGED <<page_list, todo, local, pc, lru_inactive, pages, nr_pages, wpc, init_pc>>
  BY DEF WorkerReclaim, initVars, reclaimVars, sharedVars
<1>2. batch \in SUBSET Pages /\ batch' \in SUBSET Pages
  BY <1>1 DEF IInv, ListsTyped
<1>3. PendingInv'
  <2>1. NrPages[batch'] <= NrPages[batch] /\ NrPages[batch'] \in Nat /\ NrPages[batch] \in Nat
    BY <1>1, <1>2, CountLess, Count
  <2>2. NrPages[batch'] <= nr_pages
    BY <1>1, <2>1 DEF IInv, PendingInv, ListsTyped, BusyPc
  <2>3. QED BY <1>1, <2>2 DEF IInv, PendingInv, BusyPc
<1>4. /\ lru' \subseteq Pages /\ free' \subseteq Pages
      /\ lru_inactive' \subseteq Pages /\ batch' \subseteq Pages /\ nr_pages' \in Nat
  BY <1>1, <1>2 DEF IInv, ListsTyped
<1>5. /\ lru \cup free \cup lru_inactive \cup batch
           = lru' \cup free' \cup lru_inactive' \cup batch'
      /\ lru' \cap free' = {} /\ lru_inactive' \cap batch' = {}
      /\ (lru' \cup free') \cap (lru_inactive' \cup batch') = {}
  BY <1>1 DEF IInv, PagesKept
<1>6. QED BY <1>1, <1>3, <1>4, <1>5, SharedInv

LEMMA SettleInv ==
  ASSUME IInv, WorkerAccount \/ WorkerSubtract
  PROVE  IInv'
<1>1. UNCHANGED <<lru, free, page_list, todo, local, pc, lru_inactive, batch, init_pc>>
  BY DEF WorkerAccount, WorkerSubtract, initVars, pageVars, reclaimVars, sharedVars
<1>2. NrPages[lru_inactive] \in Nat /\ nr_pages \in Nat
  BY Count DEF IInv, ListsTyped
<1>3. nr_pages' \in Nat /\ PendingInv'
  <2>1. CASE WorkerAccount
    BY <1>1, <1>2, <2>1 DEF WorkerAccount, WorkerGoto, sharedVars, IInv, PendingInv, BusyPc
  <2>2. CASE WorkerSubtract
    <3>1. wpc = "subtract" /\ wpc' = "loop" /\ pages' = pages - nr_pages /\ nr_pages' = 0
      BY <2>2 DEF WorkerSubtract, WorkerGoto
    <3>2. pages = NrPages[lru_inactive] + nr_pages /\ pages <= High /\ batch = {}
          /\ init_pc # "spawn"
      BY <3>1 DEF IInv, PendingInv, BusyPc
    <3>3. pages' = NrPages[lru_inactive] /\ pages' <= High
      BY <1>2, <3>1, <3>2, HighAssumption
    <3>4. QED BY <1>1, <1>2, <3>1, <3>2, <3>3, Count DEF PendingInv, BusyPc
  <2>3. QED BY <2>1, <2>2
<1>4. QED BY <1>1, <1>3, SharedInv DEF IInv, PagesKept, ListsTyped

LEMMA StepInv == IInv /\ [Next]_vars => IInv'
<1> SUFFICES ASSUME IInv, [Next]_vars PROVE IInv'
  OBVIOUS
<1>1. CASE InitStep
  BY <1>1, InitStepInv
<1>2. ASSUME NEW r \in Reclaimers, NEW S \in SUBSET Pages, NEW a \in BOOLEAN, Isolate(r, S, a)
      PROVE  IInv'
  BY <1>2, IsolateInv
<1>3. ASSUME NEW r \in Reclaimers, ReclaimStep(r)
      PROVE  IInv'
  BY <1>3, PassInv, ShrinkPageInv, StealInv, PublishInv, PutBackInv DEF ReclaimStep
<1>4. ASSUME NEW p \in Pages, Fault(p)
      PROVE  IInv'
  BY <1>4, FaultInv
<1>5. CASE WorkerStep
  BY <1>5, QuietInv, TakeInv, ReclaimInv, SettleInv DEF WorkerStep
<1>6. CASE UNCHANGED vars
  <2>1. UNCHANGED <<lru, free, page_list, todo, local, pc, lru_inactive, pages, batch,
                    nr_pages, wpc, init_pc>>
    BY <1>6 DEF vars, initVars, pageVars, reclaimVars, sharedVars, workerVars
  <2>2. PendingInv' /\ nr_pages' \in Nat
    BY <2>1 DEF IInv, PendingInv, ListsTyped
  <2>3. QED BY <2>1, <2>2, SharedInv DEF IInv, PagesKept, ListsTyped
<1>7. QED BY <1>1, <1>2, <1>3, <1>4, <1>5, <1>6 DEF Next

(* What the lists hold and what the counter of pending pages stands for.    *)
THEOREM HandOverInvariant == Spec => []IInv
BY InitInv, StepInv, PTL DEF Spec

(* No page is lost or on two lists, however reclaimers and worker           *)
(* interleave and whatever does not fit.                                    *)
THEOREM PagesAreKept == Spec => []PagesKept
BY HandOverInvariant, PTL DEF IInv

(* The pages handed over and not yet reclaimed stay within                  *)
(* SHRINK_LRUVECD_HIGH, whatever the sizes of the pages.                    *)
THEOREM PendingStaysBounded == Spec => []PendingBounded
<1>1. IInv => PendingBounded
  <2> SUFFICES ASSUME IInv PROVE PendingBounded
    OBVIOUS
  <2>1. /\ lru_inactive \in SUBSET Pages /\ batch \in SUBSET Pages
        /\ lru_inactive \cap batch = {} /\ nr_pages \in Nat
    BY DEF IInv, ListsTyped, PagesKept
  <2>2. /\ NrPages[lru_inactive \cup batch] = NrPages[lru_inactive] + NrPages[batch]
        /\ NrPages[lru_inactive] \in Nat /\ NrPages[batch] \in Nat
    BY <2>1, Count
  <2>3. QED BY <2>1, <2>2, HighAssumption DEF IInv, PendingInv, PendingBounded
<1>2. QED BY <1>1, HandOverInvariant, PTL
-----------------------------------------------------------------------------
(* NR_ISOLATED.  The sum of the shares over any set of reclaimers: that     *)
(* there is one is part of the invariant, so that a step changes the sum    *)
(* by what it does to one of them.                                          *)
Summed(f) ==
  /\ f \in [SUBSET Reclaimers -> Int]
  /\ \A S \in SUBSET Reclaimers : \A r \in Reclaimers \ S : f[S \cup {r}] = f[S] + Share(r)
  /\ \A S \in SUBSET Reclaimers : NrPages[Accounted(S)] <= f[S]
  /\ \A S \in SUBSET Reclaimers : (\A r \in S : Share(r) = 0) => f[S] = 0

Balance == nr_isolated - isolated - batch_isolated

SumInv == nr_isolated \in Int /\ \E f : Summed(f) /\ f[Reclaimers] = Balance

Owned(r) == IF account[r] THEN Held(r) ELSE {}

LEMMA OwnedFacts ==
  ASSUME ListsTyped, ShareInv
  PROVE  /\ \A r \in Reclaimers : Owned(r) \in SUBSET Pages /\ Held(r) \in SUBSET Pages
         /\ \A S \in SUBSET Reclaimers : Accounted(S) \in SUBSET Pages
         /\ \A S \in SUBSET Reclaimers :
              \A p : p \in Accounted(S) <=> \E r \in S : p \in Owned(r)
<1>1. \A r \in Reclaimers : Owned(r) \in SUBSET Pages /\ Held(r) \in SUBSET Pages
  BY DEF ListsTyped, Owned, Held
<1>2. ASSUME NEW S \in SUBSET Reclaimers
      PROVE  \A p : p \in Accounted(S) <=> \E r \in S : p \in Owned(r)
  BY DEF Accounted, Owned, ShareInv
<1>3. QED BY <1>1, <1>2

LEMMA ShareFacts ==
  ASSUME ListsTyped, ShareInv, NEW r \in Reclaimers
  PROVE  Share(r) \in Nat /\ NrPages[Owned(r)] <= Share(r) /\ NrPages[Owned(r)] \in Nat
<1>1. Owned(r) \in SUBSET Pages
  BY OwnedFacts
<1>2. NrPages[Owned(r)] \in Nat
  BY <1>1, Count
<1>3. /\ NrPages[Owned(r)] + nr_queued[r] <= nr_taken[r]
      /\ nr_queued[r] \in Nat /\ nr_taken[r] \in Nat
  BY DEF ShareInv, Owned
<1>4. QED BY <1>2, <1>3 DEF Share

LEMMA CountUnion ==
  ASSUME NEW S \in SUBSET Pages, NEW T \in SUBSET Pages
  PROVE  NrPages[S \cup T] <= NrPages[S] + NrPages[T]
<1>1. S \cup T = S \cup (T \ S) /\ S \cap (T \ S) = {} /\ T \ S \in SUBSET Pages
  OBVIOUS
<1>2. NrPages[S \cup T] = NrPages[S] + NrPages[T \ S]
  BY <1>1, Count
<1>3. NrPages[T \ S] <= NrPages[T]
  BY CountLess
<1>4. QED BY <1>1, <1>2, <1>3, Count

(* Everybody but r keeps what he has.                                       *)
OthersKeep(r) ==
  \A s \in Reclaimers \ {r} :
    /\ Held(s)' = Held(s) /\ account'[s] = account[s]
    /\ nr_taken'[s] = nr_taken[s] /\ nr_queued'[s] = nr_queued[s]

LEMMA SumMoves ==
  ASSUME ListsTyped, ShareInv, ListsTyped', ShareInv', NEW r \in Reclaimers, OthersKeep(r),
         NEW f, Summed(f)
  PROVE  \E e : Summed(e)' /\ e[Reclaimers] = f[Reclaimers] + (Share(r)' - Share(r))
<1> PICK D : D = Share(r)' - Share(r)
  OBVIOUS
<1>1. D \in Int /\ Share(r) \in Nat /\ Share(r)' \in Nat /\ Share(r)' = Share(r) + D
  <2>1. Share(r) \in Nat /\ (Share(r) \in Nat)'
    BY ShareFacts, PTL
  <2>2. QED BY <2>1
<1> PICK e : e = [S \in SUBSET Reclaimers |-> IF r \in S THEN f[S] + D ELSE f[S]]
  OBVIOUS
<1>2. /\ f \in [SUBSET Reclaimers -> Int]
      /\ \A S \in SUBSET Reclaimers : \A s \in Reclaimers \ S : f[S \cup {s}] = f[S] + Share(s)
      /\ \A S \in SUBSET Reclaimers : NrPages[Accounted(S)] <= f[S]
      /\ \A S \in SUBSET Reclaimers : (\A s \in S : Share(s) = 0) => f[S] = 0
  BY DEF Summed
<1>3. e \in [SUBSET Reclaimers -> Int]
  BY <1>1, <1>2
<1>4. \A s \in Reclaimers \ {r} : Share(s)' = Share(s) /\ Owned(s)' = Owned(s)
  BY DEF OthersKeep, Share, Owned
<1>5. \A s \in Reclaimers : Share(s) \in Nat
  BY ShareFacts
<1>6. ASSUME NEW S \in SUBSET Reclaimers, NEW s \in Reclaimers \ S
      PROVE  e[S \cup {s}] = e[S] + Share(s)'
  <2>1. f[S \cup {s}] = f[S] + Share(s) /\ S \cup {s} \in SUBSET Reclaimers /\ f[S] \in Int
    BY <1>2
  <2>2. CASE s = r
    <3>1. e[S \cup {s}] = f[S \cup {s}] + D /\ e[S] = f[S]
      BY <2>1, <2>2
    <3>2. QED BY <3>1, <2>1, <2>2, <1>1
  <2>3. CASE s # r
    <3>1. Share(s)' = Share(s) /\ Share(s) \in Nat
      BY <1>4, <1>5, <2>3
    <3>2. e[S \cup {s}] = (IF r \in S THEN f[S \cup {s}] + D ELSE f[S \cup {s}])
          /\ e[S] = IF r \in S THEN f[S] + D ELSE f[S]
      BY <2>1, <2>3
    <3>3. QED BY <3>1, <3>2, <2>1, <1>1
  <2>4. QED BY <2>2, <2>3
<1>7. ASSUME NEW S \in SUBSET Reclaimers PROVE NrPages[Accounted(S)'] <= e[S]
  <2>1. /\ \A p : p \in Accounted(S) <=> \E s \in S : p \in Owned(s)
        /\ \A p : p \in Accounted(S)' <=> \E s \in S : p \in Owned(s)'
    <3>1. \A p : p \in Accounted(S) <=> \E s \in S : p \in Owned(s)
      BY OwnedFacts
    <3>2. \A p : p \in Accounted(S)' <=> \E s \in S : p \in Owned(s)'
      BY DEF Accounted, Owned, ShareInv
    <3>3. QED BY <3>1, <3>2
  <2>2. CASE r \notin S
    <3>1. Accounted(S)' = Accounted(S)
      BY <1>4, <2>1, <2>2
    <3>2. QED BY <3>1, <1>2, <2>2
  <2>3. CASE r \in S
    <3> PICK T \in SUBSET Reclaimers : T = S \ {r}
      OBVIOUS
    <3>1. S = T \cup {r} /\ r \in Reclaimers \ T
      BY <2>3
    <3>2. /\ \A p : p \in Accounted(T) <=> \E s \in T : p \in Owned(s)
          /\ Accounted(T) \in SUBSET Pages /\ (Owned(r) \in SUBSET Pages)'
      <4>1. \A U \in SUBSET Reclaimers :
              /\ \A p : p \in Accounted(U) <=> \E s \in U : p \in Owned(s)
              /\ Accounted(U) \in SUBSET Pages
        BY OwnedFacts
      <4>2. (Owned(r) \in SUBSET Pages)'
        BY DEF ListsTyped, Owned, Held
      <4>3. QED BY <4>1, <4>2
    <3>3. Accounted(S)' = Accounted(T) \cup Owned(r)'
      <4>1. \A s \in T : Owned(s)' = Owned(s)
        BY <1>4, <3>1
      <4>2. ASSUME NEW p
            PROVE  p \in Accounted(S)' <=> p \in Accounted(T) \/ p \in Owned(r)'
        <5>1. p \in Accounted(S)' <=> (\E s \in T : p \in Owned(s)') \/ p \in Owned(r)'
          BY <2>1, <3>1
        <5>2. p \in Accounted(T) <=> \E s \in T : p \in Owned(s)'
          <6>1. p \in Accounted(T) <=> \E s \in T : p \in Owned(s)
            BY <3>2
          <6>2. \A s \in T : p \in Owned(s)' <=> p \in Owned(s)
            BY <4>1
          <6>3. QED BY <6>1, <6>2
        <5>3. QED BY <5>1, <5>2
      <4>3. QED BY <4>2, Zenon
    <3>4. NrPages[Accounted(S)'] <= NrPages[Accounted(T)] + NrPages[Owned(r)']
      BY <3>2, <3>3, CountUnion
    <3>5. NrPages[Accounted(T)] <= f[T] /\ f[S] = f[T] + Share(r) /\ e[S] = f[S] + D
          /\ f[T] \in Int
      BY <1>2, <2>3, <3>1
    <3>6. NrPages[Owned(r)'] <= Share(r)' /\ NrPages[Owned(r)'] \in Nat
      <4>1. (NrPages[Owned(r)] <= Share(r) /\ NrPages[Owned(r)] \in Nat)'
        BY ShareFacts, PTL
      <4>2. QED BY <4>1
    <3>7. NrPages[Accounted(T)] \in Nat /\ NrPages[Accounted(S)'] \in Nat
      BY <3>2, <3>3, Count
    <3>8. QED BY <1>1, <3>4, <3>5, <3>6, <3>7
  <2>4. QED BY <2>2, <2>3
<1>8. ASSUME NEW S \in SUBSET Reclaimers, \A s \in S : Share(s)' = 0 PROVE e[S] = 0
  <2>1. CASE r \notin S
    <3>1. \A s \in S : Share(s) = 0
      BY <1>4, <1>8, <2>1
    <3>2. QED BY <3>1, <1>2, <2>1
  <2>2. CASE r \in S
    <3> PICK T \in SUBSET Reclaimers : T = S \ {r}
      OBVIOUS
    <3>1. S = T \cup {r} /\ r \in Reclaimers \ T
      BY <2>2
    <3>2. \A s \in T : Share(s) = 0
      BY <1>4, <1>8, <3>1
    <3>3. f[T] = 0 /\ f[S] = f[T] + Share(r) /\ e[S] = f[S] + D
      BY <1>2, <2>2, <3>1, <3>2
    <3>4. Share(r)' = 0
      BY <1>8, <2>2
    <3>5. f[S] = Share(r)
      BY <1>1, <3>3
    <3>6. QED BY <1>1, <3>3, <3>4, <3>5
  <2>3. QED BY <2>1, <2>2
<1>9. e[Reclaimers] = f[Reclaimers] + D
  BY <1>2
<1>10. Summed(e)'
  BY <1>3, <1>6, <1>7, <1>8 DEF Summed
<1>11. QED BY <1>9, <1>10

(* A step of one reclaimer.                                                 *)
LEMMA ShareMoves ==
  ASSUME ListsTyped, ListsTyped', ShareInv, ShareInv', SumInv, NEW r \in Reclaimers,
         OthersKeep(r), nr_isolated' \in Int,
         Balance' = Balance + (Share(r)' - Share(r))
  PROVE  SumInv'
<1>1. PICK f : Summed(f) /\ f[Reclaimers] = Balance
  BY DEF SumInv
<1>2. PICK e : Summed(e)' /\ e[Reclaimers] = f[Reclaimers] + (Share(r)' - Share(r))
  BY <1>1, SumMoves
<1>3. e[Reclaimers] = Balance'
  BY <1>1, <1>2
<1>4. QED BY <1>2, <1>3 DEF SumInv

(* A step of the worker or of the module's init.                            *)
LEMMA ShareStays ==
  ASSUME SumInv, UNCHANGED <<page_list, local, account, nr_taken, nr_queued>>,
         nr_isolated' \in Int, Balance' = Balance
  PROVE  SumInv'
<1>1. \A r : Share(r)' = Share(r)
  BY DEF Share
<1>2. \A S : Accounted(S)' = Accounted(S)
  BY DEF Accounted, Held
<1>3. PICK f : Summed(f) /\ f[Reclaimers] = Balance
  BY DEF SumInv
<1>4. Summed(f)'
  BY <1>1, <1>2, <1>3 DEF Summed
<1>5. QED BY <1>3, <1>4 DEF SumInv
LEMMA ShareInit == Init => ShareInv /\ SumInv
<1> SUFFICES ASSUME Init PROVE ShareInv /\ SumInv
  OBVIOUS
<1>1. /\ account = [r \in Reclaimers |-> FALSE] /\ pc = [r \in Reclaimers |-> "idle"]
      /\ nr_taken = [r \in Reclaimers |-> 0] /\ nr_queued = [r \in Reclaimers |-> 0]
      /\ isolated = 0 /\ batch_isolated = 0 /\ lru_inactive = {} /\ nr_isolated = 0
  BY DEF Init
<1>2. ShareInv
  BY <1>1, Count DEF ShareInv
<1>3. SumInv
  <2> PICK f : f = [S \in SUBSET Reclaimers |-> 0]
    OBVIOUS
  <2>1. \A S \in SUBSET Reclaimers : Accounted(S) = {}
    BY <1>1 DEF Accounted
  <2>2. \A r \in Reclaimers : Share(r) = 0
    BY <1>1 DEF Share
  <2>3. f \in [SUBSET Reclaimers -> Int] /\ \A S \in SUBSET Reclaimers : f[S] = 0
    OBVIOUS
  <2>4. \A S \in SUBSET Reclaimers : NrPages[Accounted(S)] <= f[S]
    BY <2>1, <2>3, Count
  <2>5. \A S \in SUBSET Reclaimers : \A r \in Reclaimers \ S : f[S \cup {r}] = f[S] + Share(r)
    BY <2>2, <2>3
  <2>6. Summed(f)
    BY <2>3, <2>4, <2>5 DEF Summed
  <2>7. f[Reclaimers] = Balance /\ nr_isolated \in Int
    BY <1>1, <2>3 DEF Balance
  <2>8. QED BY <2>6, <2>7 DEF SumInv
<1>4. QED BY <1>2, <1>3

(* What a step of r has to show of ShareInv.                                *)
LEMMA OneShare ==
  ASSUME ListsTyped, ShareInv, NEW r \in Reclaimers, OthersKeep(r),
         account' \in [Reclaimers -> BOOLEAN],
         nr_taken' \in [Reclaimers -> Nat], nr_queued' \in [Reclaimers -> Nat],
         \A s \in Reclaimers \ {r} : pc'[s] = pc[s],
         isolated' \in Nat, isolated' <= NrPages[lru_inactive'],
         UNCHANGED <<wpc, batch_isolated>>,
         NrPages[Owned(r)'] + nr_queued'[r] <= nr_taken'[r],
         pc'[r] # "account" => nr_queued'[r] = 0,
         pc'[r] = "idle" => nr_taken'[r] = 0,
         ~account'[r] => nr_taken'[r] = 0
  PROVE  ShareInv'
<1>1. ASSUME NEW s \in Reclaimers
      PROVE  /\ NrPages[IF account'[s] THEN Held(s)' ELSE {}] + nr_queued'[s] <= nr_taken'[s]
             /\ pc'[s] # "account" => nr_queued'[s] = 0
             /\ pc'[s] = "idle" => nr_taken'[s] = 0
             /\ ~account'[s] => nr_taken'[s] = 0
  <2>1. CASE s = r
    BY <2>1 DEF Owned
  <2>2. CASE s # r
    BY <2>2 DEF OthersKeep, ShareInv
  <2>3. QED BY <2>1, <2>2
<1>2. QED BY <1>1 DEF ShareInv

ShareStep(r) ==
  ShareInv' /\ OthersKeep(r) /\ nr_isolated' \in Int /\ Balance' = Balance + (Share(r)' - Share(r))

LEMMA IsolateShare ==
  ASSUME IInv, IInv', ShareInv, nr_isolated \in Int, NEW r \in Reclaimers,
         NEW S \in SUBSET Pages, NEW a \in BOOLEAN, Isolate(r, S, a)
  PROVE  ShareStep(r)
<1> PICK n : n = IF a THEN NrPages[S] ELSE 0
  OBVIOUS
<1>1. n \in Nat
  BY Count
<1>2. /\ pc[r] = "idle" /\ pc' = [pc EXCEPT ![r] = "walk"]
      /\ account' = [account EXCEPT ![r] = a]
      /\ page_list' = [page_list EXCEPT ![r] = S]
      /\ nr_taken' = [nr_taken EXCEPT ![r] = n]
      /\ nr_isolated' = nr_isolated + n
      /\ UNCHANGED <<local, nr_queued, lru_inactive, isolated, wpc, batch_isolated>>
  BY DEF Isolate, Goto, WorkerIdle, sharedVars
<1>3. /\ page_list \in [Reclaimers -> SUBSET Pages] /\ local \in [Reclaimers -> SUBSET Pages]
      /\ pc \in [Reclaimers -> ReclaimPc] /\ local[r] = {}
  BY <1>2 DEF IInv, ListsTyped, ListInv
<1>4. /\ account \in [Reclaimers -> BOOLEAN] /\ isolated \in Nat /\ batch_isolated \in Nat
      /\ nr_taken \in [Reclaimers -> Nat] /\ nr_queued \in [Reclaimers -> Nat]
      /\ nr_taken[r] = 0 /\ nr_queued[r] = 0 /\ isolated <= NrPages[lru_inactive]
  BY <1>2 DEF ShareInv
<1>5. OthersKeep(r)
  BY <1>2, <1>3, <1>4 DEF OthersKeep, Held
<1>6. Owned(r)' = IF a THEN S ELSE {}
  BY <1>2, <1>3, <1>4 DEF Owned, Held
<1>7. NrPages[Owned(r)'] = n
  BY <1>6, Count
<1>8. ShareInv'
  <2>1. /\ nr_taken'[r] = n /\ nr_queued'[r] = 0 /\ pc'[r] = "walk" /\ account'[r] = a
        /\ \A s \in Reclaimers \ {r} : pc'[s] = pc[s]
        /\ account' \in [Reclaimers -> BOOLEAN]
        /\ nr_taken' \in [Reclaimers -> Nat] /\ nr_queued' \in [Reclaimers -> Nat]
    BY <1>1, <1>2, <1>3, <1>4
  <2>2. NrPages[Owned(r)'] + nr_queued'[r] <= nr_taken'[r]
    BY <1>1, <1>7, <2>1
  <2>3. QED BY <1>2, <1>4, <1>5, <2>1, <2>2, OneShare DEF IInv
<1>9. Balance' = Balance + (Share(r)' - Share(r))
  BY <1>1, <1>2, <1>4 DEF Balance, Share
<1>10. QED BY <1>1, <1>2, <1>5, <1>8, <1>9 DEF ShareStep

LEMMA ShareTyped ==
  ASSUME IInv, ShareInv
  PROVE  /\ page_list \in [Reclaimers -> SUBSET Pages] /\ local \in [Reclaimers -> SUBSET Pages]
         /\ pc \in [Reclaimers -> ReclaimPc] /\ account \in [Reclaimers -> BOOLEAN]
         /\ isolated \in Nat /\ batch_isolated \in Nat
         /\ nr_taken \in [Reclaimers -> Nat] /\ nr_queued \in [Reclaimers -> Nat]
         /\ isolated <= NrPages[lru_inactive] /\ NrPages[lru_inactive] \in Nat
         /\ \A r \in Reclaimers :
              /\ Owned(r) \in SUBSET Pages /\ NrPages[Owned(r)] \in Nat
              /\ NrPages[Owned(r)] + nr_queued[r] <= nr_taken[r]
              /\ pc[r] # "account" => nr_queued[r] = 0
              /\ pc[r] = "idle" => nr_taken[r] = 0
              /\ ~account[r] => nr_taken[r] = 0
<1>1. ListsTyped
  BY DEF IInv
<1>2. \A r \in Reclaimers : Owned(r) \in SUBSET Pages
  BY <1>1, OwnedFacts
<1>3. NrPages[lru_inactive] \in Nat /\ \A r \in Reclaimers : NrPages[Owned(r)] \in Nat
  BY <1>1, <1>2, Count DEF ListsTyped
<1>4. QED BY <1>1, <1>2, <1>3 DEF ListsTyped, ShareInv, Owned

(* A step that changes of r's share only where r is, and what r has lost.   *)
LEMMA HolderShare ==
  ASSUME IInv, IInv', ShareInv, nr_isolated \in Int, NEW r \in Reclaimers,
         UNCHANGED <<account, nr_taken, nr_queued, isolated, lru_inactive, wpc, batch_isolated,
                     nr_isolated>>,
         \A s \in Reclaimers \ {r} : pc'[s] = pc[s] /\ Held(s)' = Held(s),
         Held(r)' \subseteq Held(r), pc[r] # "account", pc'[r] # "idle"
  PROVE  ShareStep(r)
<1>1. OthersKeep(r)
  BY DEF OthersKeep
<1>2. Owned(r)' \subseteq Owned(r) /\ Owned(r) \in SUBSET Pages
  BY ShareTyped DEF Owned
<1>3. NrPages[Owned(r)'] <= NrPages[Owned(r)]
  BY <1>2, CountLess
<1>4. NrPages[Owned(r)'] \in Nat
  BY <1>2, Count
<1>5. ShareInv'
  BY <1>1, <1>3, <1>4, ShareTyped, OneShare DEF IInv
<1>6. Balance' = Balance + (Share(r)' - Share(r))
  BY ShareTyped DEF Balance, Share
<1>7. QED BY <1>1, <1>5, <1>6 DEF ShareStep

LEMMA PassShare ==
  ASSUME IInv, IInv', ShareInv, nr_isolated \in Int, NEW r \in Reclaimers,
         \/ \E p \in Pages : PassOver(r, p)
         \/ StealNotSetUp(r)
         \/ WakeWorker(r)
  PROVE  ShareStep(r)
<1> USE DEF PassOver, StealNotSetUp, WakeWorker, WorkerIdle, initVars, pageVars, sharedVars, Goto
<1>1. /\ UNCHANGED <<page_list, local, account, nr_taken, nr_queued, isolated, lru_inactive, wpc,
                     batch_isolated, nr_isolated>>
      /\ pc[r] \in {"walk", "wake"}
      /\ pc' = pc \/ pc' = [pc EXCEPT ![r] = "return"]
  OBVIOUS
<1>2. \A s \in Reclaimers : Held(s)' = Held(s)
  BY <1>1 DEF Held
<1>3. pc'[r] # "idle" /\ \A s \in Reclaimers \ {r} : pc'[s] = pc[s]
  BY <1>1, ShareTyped
<1>4. QED BY <1>1, <1>2, <1>3, HolderShare

LEMMA ShrinkPageShare ==
  ASSUME IInv, IInv', ShareInv, nr_isolated \in Int, NEW r \in Reclaimers, NEW p \in Pages,
         NEW contended \in BOOLEAN, NEW freed \in BOOLEAN, NEW cleared \in BOOLEAN,
         ShrinkPage(r, p, contended, freed, cleared)
  PROVE  ShareStep(r)
<1>1. /\ UNCHANGED <<pc, local, account, nr_taken, nr_queued, isolated, lru_inactive, wpc,
                     batch_isolated, nr_isolated>>
      /\ pc[r] = "walk"
      /\ page_list' = [page_list EXCEPT ![r] = IF freed THEN @ \ {p} ELSE @]
  BY DEF ShrinkPage, WorkerIdle, sharedVars
<1>2. /\ page_list'[r] \subseteq page_list[r]
      /\ \A s \in Reclaimers \ {r} : page_list'[s] = page_list[s]
  BY <1>1, ShareTyped
<1>3. Held(r)' \subseteq Held(r) /\ \A s \in Reclaimers \ {r} : Held(s)' = Held(s)
  BY <1>1, <1>2 DEF Held
<1>4. QED BY <1>1, <1>3, HolderShare

LEMMA StealShare ==
  ASSUME IInv, IInv', ShareInv, nr_isolated \in Int, NEW r \in Reclaimers,
         NEW seen \in SUBSET Pages, NEW stolen \in SUBSET Pages, StealDelayed(r, seen, stolen)
  PROVE  ShareStep(r)
<1>1. /\ UNCHANGED <<account, nr_taken, nr_queued, isolated, lru_inactive, wpc,
                     batch_isolated, nr_isolated>>
      /\ pc[r] = "walk" /\ pc' = [pc EXCEPT ![r] = IF stolen = {} THEN "return" ELSE "publish"]
      /\ page_list' = [page_list EXCEPT ![r] = @ \ stolen]
      /\ local' = [local EXCEPT ![r] = stolen] /\ stolen \subseteq page_list[r]
  BY DEF StealDelayed, Cut, Goto, WorkerIdle, sharedVars
<1>2. /\ page_list'[r] = page_list[r] \ stolen /\ local'[r] = stolen /\ pc'[r] # "idle"
      /\ \A s \in Reclaimers \ {r} :
           page_list'[s] = page_list[s] /\ local'[s] = local[s] /\ pc'[s] = pc[s]
  BY <1>1, ShareTyped
<1>3. Held(r)' \subseteq Held(r) /\ \A s \in Reclaimers \ {r} : Held(s)' = Held(s)
  BY <1>1, <1>2 DEF Held
<1>4. QED BY <1>1, <1>2, <1>3, HolderShare

LEMMA AccountShare ==
  ASSUME IInv, IInv', ShareInv, nr_isolated \in Int, NEW r \in Reclaimers, AccountUp(r)
  PROVE  ShareStep(r)
<1>1. /\ UNCHANGED <<page_list, local, account, nr_taken, isolated, lru_inactive, wpc,
                     batch_isolated>>
      /\ pc[r] = "account" /\ pc' = [pc EXCEPT ![r] = "wake"]
      /\ nr_isolated' = nr_isolated + nr_queued[r]
      /\ nr_queued' = [nr_queued EXCEPT ![r] = 0]
  BY DEF AccountUp, Goto, WorkerIdle, sharedVars
<1>2. /\ nr_queued'[r] = 0 /\ pc'[r] = "wake" /\ nr_queued' \in [Reclaimers -> Nat]
      /\ \A s \in Reclaimers \ {r} : pc'[s] = pc[s] /\ nr_queued'[s] = nr_queued[s]
      /\ nr_isolated' \in Int
  BY <1>1, ShareTyped
<1>3. (\A s : Held(s)' = Held(s)) /\ Owned(r)' = Owned(r)
  BY <1>1 DEF Held, Owned
<1>4. OthersKeep(r)
  BY <1>1, <1>2, <1>3 DEF OthersKeep
<1>5. NrPages[Owned(r)'] + nr_queued'[r] <= nr_taken'[r]
  BY <1>1, <1>2, <1>3, ShareTyped
<1>6. ShareInv'
  BY <1>1, <1>2, <1>4, <1>5, ShareTyped, OneShare DEF IInv
<1>7. Balance' = Balance + (Share(r)' - Share(r))
  BY <1>1, <1>2, ShareTyped DEF Balance, Share
<1>8. QED BY <1>2, <1>4, <1>6, <1>7 DEF ShareStep

LEMMA PutBackShare ==
  ASSUME IInv, IInv', ShareInv, nr_isolated \in Int, NEW r \in Reclaimers, PutBack(r)
  PROVE  ShareStep(r)
<1>1. /\ UNCHANGED <<local, nr_queued, isolated, lru_inactive, wpc, batch_isolated>>
      /\ pc[r] = "return" /\ pc' = [pc EXCEPT ![r] = "idle"]
      /\ page_list' = [page_list EXCEPT ![r] = {}]
      /\ nr_isolated' = nr_isolated - nr_taken[r]
      /\ nr_taken' = [nr_taken EXCEPT ![r] = 0]
      /\ account' = [account EXCEPT ![r] = FALSE]
  BY DEF PutBack, Goto, WorkerIdle, sharedVars
<1>2. /\ nr_taken'[r] = 0 /\ ~account'[r] /\ nr_queued[r] = 0
      /\ nr_taken' \in [Reclaimers -> Nat] /\ account' \in [Reclaimers -> BOOLEAN]
      /\ nr_isolated' \in Int
  BY <1>1, ShareTyped
<1>3. \A s \in Reclaimers \ {r} :
        /\ pc'[s] = pc[s] /\ nr_taken'[s] = nr_taken[s] /\ account'[s] = account[s]
        /\ page_list'[s] = page_list[s]
  BY <1>1, ShareTyped
<1>4. OthersKeep(r) /\ Owned(r)' = {}
  BY <1>1, <1>2, <1>3 DEF OthersKeep, Held, Owned
<1>5. NrPages[Owned(r)'] + nr_queued'[r] <= nr_taken'[r]
  BY <1>1, <1>2, <1>4, Count
<1>6. ShareInv'
  BY <1>1, <1>2, <1>3, <1>4, <1>5, ShareTyped, OneShare DEF IInv
<1>7. Balance' = Balance + (Share(r)' - Share(r))
  BY <1>1, <1>2, ShareTyped DEF Balance, Share
<1>8. QED BY <1>2, <1>4, <1>6, <1>7 DEF ShareStep

LEMMA PublishShare ==
  ASSUME IInv, IInv', ShareInv, nr_isolated \in Int, NEW r \in Reclaimers, Publish(r)
  PROVE  ShareStep(r)
<1> PICK L : L = local[r]
  OBVIOUS
<1>1. /\ pc[r] = "publish" /\ local' = [local EXCEPT ![r] = {}]
      /\ UNCHANGED <<account, nr_taken, wpc, batch_isolated, nr_isolated>>
  BY DEF Publish, HandBack, HandOver, Goto, WorkerIdle
<1>2. /\ L \in SUBSET Pages /\ page_list[r] \in SUBSET Pages /\ lru_inactive \in SUBSET Pages
      /\ L \cap page_list[r] = {} /\ L \cap lru_inactive = {}
  BY DEF IInv, ListsTyped, PagesKept, Held
<1>3. local'[r] = {} /\ \A s \in Reclaimers \ {r} : local'[s] = local[s]
  BY <1>1, ShareTyped
<1>4. CASE pages + NrPages[L] > High
  <2>1. /\ page_list' = [page_list EXCEPT ![r] = @ \cup L]
        /\ pc' = [pc EXCEPT ![r] = "return"]
        /\ UNCHANGED <<lru_inactive, isolated, nr_queued>>
    BY <1>4 DEF Publish, HandBack, Goto, sharedVars
  <2>2. /\ page_list'[r] = page_list[r] \cup L /\ pc'[r] = "return"
        /\ \A s \in Reclaimers \ {r} : page_list'[s] = page_list[s] /\ pc'[s] = pc[s]
    BY <2>1, ShareTyped
  <2>3. Held(r)' \subseteq Held(r) /\ \A s \in Reclaimers \ {r} : Held(s)' = Held(s)
    BY <1>3, <2>2 DEF Held
  <2>4. QED BY <1>1, <2>1, <2>2, <2>3, HolderShare
<1>5. CASE ~(pages + NrPages[L] > High)
  <2> PICK a : a = IF account[r] THEN NrPages[L] ELSE 0
    OBVIOUS
  <2>1. /\ lru_inactive' = lru_inactive \cup L /\ isolated' = isolated + a
        /\ nr_queued' = [nr_queued EXCEPT ![r] = a] /\ page_list' = page_list
        /\ pc' = [pc EXCEPT ![r] = IF account[r] THEN "account" ELSE "wake"]
    BY <1>5 DEF Publish, HandOver, Goto
  <2>2. /\ NrPages[L] \in Nat /\ a \in Nat /\ a <= NrPages[L]
        /\ NrPages[lru_inactive'] = NrPages[lru_inactive] + NrPages[L]
        /\ NrPages[page_list[r] \cup L] = NrPages[page_list[r]] + NrPages[L]
        /\ NrPages[page_list[r]] \in Nat
    <3>1. /\ NrPages[L] \in Nat /\ NrPages[page_list[r]] \in Nat
          /\ NrPages[lru_inactive \cup L] = NrPages[lru_inactive] + NrPages[L]
      BY <1>2, Count
    <3>2. page_list[r] \cap L = {} => NrPages[page_list[r] \cup L] = NrPages[page_list[r]] + NrPages[L]
      BY <1>2, Count
    <3>3. QED BY <1>2, <2>1, <3>1, <3>2
  <2>3. /\ nr_queued'[r] = a /\ nr_queued[r] = 0 /\ nr_queued' \in [Reclaimers -> Nat]
        /\ pc'[r] = (IF account[r] THEN "account" ELSE "wake")
        /\ \A s \in Reclaimers \ {r} : nr_queued'[s] = nr_queued[s] /\ pc'[s] = pc[s]
    BY <1>1, <2>1, <2>2, ShareTyped
  <2>4. isolated' \in Nat /\ isolated' <= NrPages[lru_inactive']
    BY <2>1, <2>2, ShareTyped
  <2>5. OthersKeep(r)
    BY <1>1, <1>3, <2>1, <2>3 DEF OthersKeep, Held
  <2>6. NrPages[Owned(r)'] + nr_queued'[r] <= nr_taken'[r]
    <3>1. CASE account[r]
      <4>1. Owned(r) = page_list[r] \cup L /\ Owned(r)' = page_list[r]
        BY <1>1, <1>3, <2>1, <3>1 DEF Owned, Held
      <4>2. NrPages[page_list[r]] + NrPages[L] <= nr_taken[r]
        <5>1. NrPages[Owned(r)] + nr_queued[r] <= nr_taken[r] /\ nr_taken[r] \in Nat
          BY ShareTyped
        <5>2. NrPages[Owned(r)] = NrPages[page_list[r]] + NrPages[L]
          BY <2>2, <4>1
        <5>3. QED BY <2>2, <2>3, <5>1, <5>2
      <4>3. QED BY <1>1, <2>3, <3>1, <4>1, <4>2
    <3>2. CASE ~account[r]
      <4>1. Owned(r)' = {} /\ nr_queued'[r] = 0 /\ nr_taken'[r] = 0
        BY <1>1, <2>3, <3>2, ShareTyped DEF Owned
      <4>2. QED BY <4>1, Count
    <3>3. QED BY <3>1, <3>2
  <2>7. ShareInv'
    <3>1. /\ pc'[r] # "account" => nr_queued'[r] = 0
          /\ pc'[r] # "idle" /\ (~account'[r] => nr_taken'[r] = 0)
      BY <1>1, <2>3, ShareTyped
    <3>2. QED BY <1>1, <2>3, <2>4, <2>5, <2>6, <3>1, ShareTyped, OneShare DEF IInv
  <2>8. Balance' = Balance + (Share(r)' - Share(r))
    BY <1>1, <2>1, <2>2, <2>3, ShareTyped DEF Balance, Share
  <2>9. QED BY <1>1, <2>5, <2>7, <2>8 DEF ShareStep
<1>6. QED BY <1>4, <1>5

(* A step of nobody who reclaims.                                           *)
LEMMA NoShare ==
  ASSUME IInv, IInv', ShareInv, SumInv,
         UNCHANGED <<page_list, local, pc, account, nr_taken, nr_queued>>,
         isolated' \in Nat, batch_isolated' \in Nat, isolated' <= NrPages[lru_inactive'],
         wpc' # "reclaim" => batch_isolated' = 0,
         nr_isolated' \in Int, Balance' = Balance
  PROVE  ShareInv' /\ SumInv'
<1>1. \A s : Held(s)' = Held(s)
  BY DEF Held
<1>2. ShareInv'
  BY <1>1 DEF ShareInv
<1>3. QED BY <1>2, ShareStays

LEMMA IdleShare ==
  ASSUME IInv, IInv', ShareInv, SumInv,
         \/ InitStep
         \/ \E p \in Pages : Fault(p)
         \/ WorkerLoop \/ WorkerPrepare \/ WorkerCheck \/ WorkerWakes \/ WorkerSubtract
         \/ \E p \in Pages, contended, freed, cleared \in BOOLEAN :
              WorkerReclaim(p, contended, freed, cleared)
         \/ UNCHANGED vars
  PROVE  ShareInv' /\ SumInv'
<1>1. /\ UNCHANGED <<page_list, local, pc, account, nr_taken, nr_queued, isolated, lru_inactive,
                     batch_isolated, nr_isolated>>
      /\ wpc # wpc' => wpc # "reclaim"
  BY DEF InitStep, InitSpawn, InitRegister, InitEnable, InitStop, InitJoin, InitUnchanged, Fault,
     WorkerLoop, WorkerPrepare, WorkerCheck, WorkerWakes, WorkerSubtract, WorkerReclaim,
     WorkerGoto, Quiet, vars, initVars, pageVars, reclaimVars, sharedVars, workerVars,
     IInv, PendingInv
<1>2. Balance' = Balance /\ nr_isolated \in Int
  BY <1>1 DEF Balance, SumInv
<1>3. wpc' # "reclaim" => batch_isolated = 0
  BY <1>1 DEF ShareInv
<1>4. QED BY <1>1, <1>2, <1>3, ShareTyped, NoShare

LEMMA TakeShare ==
  ASSUME IInv, IInv', ShareInv, SumInv, WorkerTake
  PROVE  ShareInv' /\ SumInv'
<1>1. /\ wpc = "take" /\ wpc' = IF lru_inactive = {} THEN "loop" ELSE "reclaim"
      /\ isolated' = 0 /\ lru_inactive' = {}
      /\ batch_isolated' = IF lru_inactive = {} THEN 0 ELSE isolated
      /\ nr_isolated' = IF lru_inactive = {} THEN nr_isolated - isolated ELSE nr_isolated
      /\ UNCHANGED <<page_list, local, pc, account, nr_taken, nr_queued>>
  BY DEF WorkerTake, WorkerGoto, reclaimVars
<1>2. batch_isolated = 0 /\ isolated \in Nat /\ nr_isolated \in Int
  BY <1>1 DEF ShareInv, SumInv
<1>3. isolated' <= NrPages[lru_inactive']
  BY <1>1, Count
<1>4. Balance' = Balance
  BY <1>1, <1>2 DEF Balance
<1>5. QED BY <1>1, <1>2, <1>3, <1>4, NoShare

LEMMA SettleShare ==
  ASSUME IInv, IInv', ShareInv, SumInv, WorkerAccount
  PROVE  ShareInv' /\ SumInv'
<1>1. /\ nr_isolated' = nr_isolated - batch_isolated /\ batch_isolated' = 0
      /\ UNCHANGED <<page_list, local, pc, account, nr_taken, nr_queued, isolated, lru_inactive>>
  BY DEF WorkerAccount, WorkerGoto, reclaimVars, sharedVars
<1>2. batch_isolated \in Nat /\ isolated \in Nat /\ nr_isolated \in Int
  BY DEF ShareInv, SumInv
<1>3. Balance' = Balance /\ nr_isolated' \in Int
  BY <1>1, <1>2 DEF Balance
<1>4. QED BY <1>1, <1>2, <1>3, ShareTyped, NoShare

LEMMA ShareNext == IInv /\ IInv' /\ ShareInv /\ SumInv /\ [Next]_vars => ShareInv' /\ SumInv'
<1> SUFFICES ASSUME IInv, IInv', ShareInv, SumInv, [Next]_vars PROVE ShareInv' /\ SumInv'
  OBVIOUS
<1>1. ASSUME NEW r \in Reclaimers, ShareStep(r) PROVE ShareInv' /\ SumInv'
  <2>1. ListsTyped /\ ListsTyped'
    BY DEF IInv
  <2>2. QED BY <1>1, <2>1, ShareMoves DEF ShareStep
<1>2. nr_isolated \in Int
  BY DEF SumInv
<1>3. ASSUME NEW r \in Reclaimers, NEW S \in SUBSET Pages, NEW a \in BOOLEAN, Isolate(r, S, a)
      PROVE  ShareInv' /\ SumInv'
  BY <1>1, <1>2, <1>3, IsolateShare
<1>4. ASSUME NEW r \in Reclaimers, ReclaimStep(r)
      PROVE  ShareInv' /\ SumInv'
  <2>1. ShareStep(r)
    BY <1>2, <1>4, PassShare, ShrinkPageShare, StealShare, PublishShare, AccountShare,
       PutBackShare DEF ReclaimStep
  <2>2. QED BY <1>1, <2>1
<1>5. CASE InitStep \/ (\E p \in Pages : Fault(p)) \/ UNCHANGED vars
  BY <1>5, IdleShare
<1>6. CASE WorkerStep
  BY <1>6, IdleShare, TakeShare, SettleShare DEF WorkerStep
<1>7. QED BY <1>3, <1>4, <1>5, <1>6 DEF Next

(* What of NR_ISOLATED each reclaimer, the queue and the worker's batch     *)
(* account for: together exactly all of it.                                 *)
THEOREM SharesAddUp == Spec => [](ShareInv /\ SumInv)
<1>1. ShareInv /\ SumInv /\ IInv /\ IInv' /\ [Next]_vars => (ShareInv /\ SumInv)'
  BY ShareNext
<1>2. QED BY <1>1, ShareInit, HandOverInvariant, PTL DEF Spec

(* NR_ISOLATED covers what the reclaimers that account for their pages      *)
(* hold, and is zero again when nobody holds any.                           *)
THEOREM IsolatedCovered == Spec => []IsolatedMatches
<1>1. IInv /\ ShareInv /\ SumInv => IsolatedMatches
  <2> SUFFICES ASSUME IInv, ShareInv, SumInv PROVE IsolatedMatches
    OBVIOUS
  <2>1. PICK f : Summed(f) /\ f[Reclaimers] = Balance
    BY DEF SumInv
  <2>2. /\ NrPages[Accounted(Reclaimers)] <= Balance
        /\ (\A r \in Reclaimers : Share(r) = 0) => Balance = 0
    BY <2>1 DEF Summed
  <2>3. nr_isolated \in Int /\ isolated \in Nat /\ batch_isolated \in Nat
    BY DEF SumInv, ShareInv
  <2>4. NrPages[Accounted(Reclaimers)] <= nr_isolated
    <3>1. NrPages[Accounted(Reclaimers)] \in Nat
      <4>1. ListsTyped
        BY DEF IInv
      <4>2. Accounted(Reclaimers) \in SUBSET Pages
        BY <4>1, OwnedFacts
      <4>3. QED BY <4>2, Count
    <3>2. QED BY <2>2, <2>3, <3>1 DEF Balance
  <2>5. ASSUME \A r \in Reclaimers : pc[r] = "idle", lru_inactive = {}, wpc \notin BusyPc
        PROVE  nr_isolated = 0
    <3>1. \A r \in Reclaimers : Share(r) = 0
      BY <2>5, ShareTyped DEF Share
    <3>2. batch_isolated = 0
      BY <2>5 DEF ShareInv, BusyPc
    <3>3. isolated = 0
      BY <2>3, <2>5, ShareTyped, Count
    <3>4. QED BY <2>2, <2>3, <3>1, <3>2, <3>3 DEF Balance
  <2>6. QED BY <2>4, <2>5 DEF IsolatedMatches
<1>2. QED BY <1>1, SharesAddUp, HandOverInvariant, PTL

(* What neither IInv nor ShareInv types.                                    *)
RestTyped ==
  /\ init_pc \in InitPc /\ setup \in BOOLEAN /\ should_stop \in BOOLEAN
  /\ skip \subseteq Pages /\ delay \subseteq Pages
  /\ runnable \in BOOLEAN /\ wpc \in WorkerPc /\ waiter \in BOOLEAN

LEMMA FlagsTyped ==
  ASSUME RestTyped, NEW p \in Pages, NEW f, SetFlags(p, f)
  PROVE  skip' \subseteq Pages /\ delay' \subseteq Pages
BY DEF SetFlags, RestTyped

LEMMA RestInit == Init => RestTyped
BY DEF Init, RestTyped, InitPc, WorkerPc

LEMMA RestNext == RestTyped /\ [Next]_vars => RestTyped'
<1> SUFFICES ASSUME RestTyped, [Next]_vars PROVE RestTyped'
  OBVIOUS
<1>1. CASE InitStep
  BY <1>1 DEF InitStep, InitSpawn, InitRegister, InitEnable, InitStop, InitJoin, InitUnchanged,
     RestTyped, pageVars, sharedVars, InitPc, WorkerPc
<1>2. ASSUME NEW r \in Reclaimers, NEW S \in SUBSET Pages, NEW a \in BOOLEAN, Isolate(r, S, a)
      PROVE  RestTyped'
  BY <1>2 DEF Isolate, WorkerIdle, initVars, sharedVars, RestTyped
<1>3. ASSUME NEW r \in Reclaimers, ReclaimStep(r)
      PROVE  RestTyped'
  <2> USE DEF WorkerIdle, initVars, sharedVars, pageVars, RestTyped
  <2>1. ASSUME NEW p \in Pages, NEW contended \in BOOLEAN, NEW freed \in BOOLEAN,
               NEW cleared \in BOOLEAN, ShrinkPage(r, p, contended, freed, cleared)
        PROVE  RestTyped'
    <3>1. skip' \subseteq Pages /\ delay' \subseteq Pages
      BY <2>1, FlagsTyped DEF ShrinkPage
    <3>2. UNCHANGED <<init_pc, setup, should_stop, runnable, wpc, waiter>>
      BY <2>1 DEF ShrinkPage
    <3>3. QED BY <3>1, <3>2
  <2>2. CASE Publish(r)
    BY <2>2 DEF Publish, HandBack, HandOver
  <2>3. CASE (\E p \in Pages : PassOver(r, p)) \/ StealNotSetUp(r) \/ AccountUp(r) \/ WakeWorker(r)
    BY <2>3 DEF PassOver, StealNotSetUp, AccountUp, WakeWorker
  <2>4. CASE (\E seen, stolen \in SUBSET Pages : StealDelayed(r, seen, stolen)) \/ PutBack(r)
    BY <2>4 DEF StealDelayed, PutBack
  <2>5. QED BY <1>3, <2>1, <2>2, <2>3, <2>4 DEF ReclaimStep
<1>4. ASSUME NEW p \in Pages, Fault(p) PROVE RestTyped'
  BY <1>4 DEF Fault, initVars, sharedVars, workerVars, RestTyped
<1>5. CASE WorkerStep
  <2> USE DEF initVars, sharedVars, pageVars, RestTyped, WorkerPc, BusyPc, Quiet, WorkerGoto
  <2>1. ASSUME NEW p \in Pages, NEW contended \in BOOLEAN, NEW freed \in BOOLEAN,
               NEW cleared \in BOOLEAN, WorkerReclaim(p, contended, freed, cleared)
        PROVE  RestTyped'
    <3>1. skip' \subseteq Pages /\ delay' \subseteq Pages
      BY <2>1, FlagsTyped DEF WorkerReclaim
    <3>2. UNCHANGED <<init_pc, setup, should_stop, runnable, wpc, waiter>>
      BY <2>1 DEF WorkerReclaim
    <3>3. QED BY <3>1, <3>2
  <2>2. CASE WorkerLoop \/ WorkerPrepare \/ WorkerCheck \/ WorkerWakes
    BY <2>2 DEF WorkerLoop, WorkerPrepare, WorkerCheck, WorkerWakes
  <2>3. CASE WorkerTake \/ WorkerAccount \/ WorkerSubtract
    BY <2>3 DEF WorkerTake, WorkerAccount, WorkerSubtract
  <2>4. QED BY <1>5, <2>1, <2>2, <2>3 DEF WorkerStep
<1>6. CASE UNCHANGED vars
  BY <1>6 DEF vars, initVars, sharedVars, pageVars, workerVars, RestTyped
<1>7. QED BY <1>1, <1>2, <1>3, <1>4, <1>5, <1>6 DEF Next

(* Types; that NR_ISOLATED is never below zero rests on the shares.         *)
THEOREM TypeCorrect == Spec => []TypeOK
<1>1. IInv /\ ShareInv /\ SumInv /\ IsolatedMatches /\ RestTyped => TypeOK
  <2> SUFFICES ASSUME IInv, ShareInv, SumInv, IsolatedMatches, RestTyped PROVE TypeOK
    OBVIOUS
  <2>1. nr_isolated \in Nat
    <3>1. ListsTyped
      BY DEF IInv
    <3>2. Accounted(Reclaimers) \in SUBSET Pages
      BY <3>1, OwnedFacts
    <3>3. NrPages[Accounted(Reclaimers)] \in Nat
      BY <3>2, Count
    <3>4. QED BY <3>3 DEF IsolatedMatches, SumInv
  <2>2. pages \in Nat
    BY ShareTyped DEF IInv, PendingInv, ListsTyped
  <2>3. QED BY <2>1, <2>2 DEF IInv, ListsTyped, ShareInv, RestTyped, TypeOK
<1>2. QED BY <1>1, SharesAddUp, IsolatedCovered, HandOverInvariant, RestInit, RestNext, PTL DEF Spec
=============================================================================
