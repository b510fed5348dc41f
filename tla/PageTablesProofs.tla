-------------------------- MODULE PageTablesProofs ---------------------------
(***************************************************************************)
(* Proofs about PageTables, for any numbers of tables, entries and frames. *)
(***************************************************************************)
EXTENDS PageTables, TLAPS

-----------------------------------------------------------------------------
(* The inductive invariant *)

InNewTable == {"clear", "set"}
InTable == {"map", "unmap", "resolve", "flush", "leave"}

\* What the emergency entry holds at each place of an operation, and what the processor can
\* have kept of it.
EmergencyFollows ==
  /\ pc \in {"idle", "new table", "enter"} => emergency = None
  /\ pc \in InNewTable => emergency = new /\ new # None
  /\ pc \in InTable => emergency = pd[page[1]] /\ emergency # None
  /\ tlbTable \in {None, emergency}

\* No two entries of the directory share a table, and the new table is in none of them.
TablesAreApart ==
  /\ \A c, d \in Dir : c # d /\ pd[c] # None => pd[c] # pd[d]
  /\ new # None => \A d \in Dir : pd[d] # new

\* The operation in progress, and what its caller has seen to.
OperationAllowed ==
  /\ pc # "idle" => page \in Page /\ op \in {"map", "unmap", "resolve"}
  /\ pc \in {"new table"} \cup InNewTable =>
       op = "map" /\ pd[page[1]] = None
  /\ pc = "enter" => pd[page[1]] # None
  /\ pc \in {"map", "unmap", "resolve"} => pc = op
  /\ pc = "flush" => op = "unmap" /\ Walk(page) = None
  /\ op = "map" => target \in Target
  /\ op = "map" /\ pc \in {"enter", "map"} => Walk(page) = None
  /\ op \in {"unmap", "resolve"} /\ pc \in {"enter", "unmap", "resolve"} => Walk(page) # None

\* create_new_dir has cleared the table before it goes into the directory.
NewTableIsClear == pc = "set" => \A e \in Entry : content[new][e] = None

Inv ==
  /\ TypeOK
  /\ EmergencyFollows
  /\ TablesAreApart
  /\ OperationAllowed
  /\ NewTableIsClear
  /\ TranslationsAreCurrent
  /\ NoFault

-----------------------------------------------------------------------------
(* Facts about the tables *)

\* An access to EMERGENCY_DIR goes where the emergency entry points.
LEMMA ReachedIsEmergency ==
  ASSUME Inv
  PROVE  /\ pc \in InTable => Reached = pd[page[1]] /\ Reached \in Frame
         /\ pc \in InNewTable => Reached = new /\ new \in Frame
BY NoneAssumption DEF Inv, TypeOK, EmergencyFollows, Reached, InTable, InNewTable

\* The translation of a page in a table of the directory.
LEMMA WalkType ==
  ASSUME TypeOK, NEW p \in Page
  PROVE  /\ p[1] \in Dir /\ p[2] \in Entry
         /\ Walk(p) \in Target \cup {None}
BY DEF TypeOK, Walk, Page

\* A step that writes one entry of the table in hand changes the translation of the page in
\* hand and no other.
LEMMA WriteEntry ==
  ASSUME Inv, pc \in InTable, NEW x \in Target \cup {None},
         content' = [content EXCEPT ![Reached][page[2]] = x], pd' = pd, page' = page,
         NEW p \in Page
  PROVE  /\ Walk(p)' = IF p = page THEN x ELSE Walk(p)
         /\ content' \in [Frame -> [Entry -> Target \cup {None}]]
<1>1. page \in Page /\ page[1] \in Dir /\ page[2] \in Entry /\ p[1] \in Dir /\ p[2] \in Entry
  BY WalkType DEF Inv, OperationAllowed, InTable, Page
<1>2. Reached = pd[page[1]] /\ Reached \in Frame /\ Reached # None
  BY ReachedIsEmergency, NoneAssumption
<1>3. content \in [Frame -> [Entry -> Target \cup {None}]]
  BY DEF Inv, TypeOK
<1>4. content' \in [Frame -> [Entry -> Target \cup {None}]]
  BY <1>1, <1>2, <1>3
<1>5. CASE p[1] = page[1] /\ p[2] = page[2]
  <2>1. p = page
    BY <1>1, <1>5 DEF Page
  <2> QED
    BY <2>1, <1>1, <1>2, <1>3, <1>4 DEF Walk
<1>6. CASE p[1] = page[1] /\ p[2] # page[2]
  BY <1>1, <1>2, <1>3, <1>4, <1>6 DEF Walk
<1>7. CASE p[1] # page[1]
  <2>1. pd[p[1]] # Reached
    BY <1>1, <1>2, <1>7 DEF Inv, TablesAreApart
  <2>2. pd[p[1]] \in Frame \cup {None}
    BY <1>1 DEF Inv, TypeOK
  <2>3. pd[p[1]] # None => content'[pd[p[1]]] = content[pd[p[1]]]
    BY <2>1, <2>2, <1>2, <1>3
  <2> QED
    BY <2>3, <1>4, <1>7 DEF Walk
<1> QED
  BY <1>5, <1>6, <1>7

\* A step that writes a table that is not in the directory changes no translation.
LEMMA WriteOutside ==
  ASSUME TypeOK, NEW f \in Frame, \A d \in Dir : pd[d] # f,
         NEW t \in [Entry -> Target \cup {None}],
         content' = [content EXCEPT ![f] = t], pd' = pd
  PROVE  /\ \A p \in Page : Walk(p)' = Walk(p)
         /\ content' \in [Frame -> [Entry -> Target \cup {None}]]
<1>1. content \in [Frame -> [Entry -> Target \cup {None}]]
  BY DEF TypeOK
<1>2. content' \in [Frame -> [Entry -> Target \cup {None}]]
  BY <1>1
<1>3. ASSUME NEW p \in Page PROVE Walk(p)' = Walk(p)
  <2>1. p[1] \in Dir /\ p[2] \in Entry
    BY WalkType
  <2>2. pd[p[1]] # None => pd[p[1]] \in Frame \ {f}
    BY <2>1 DEF TypeOK
  <2>3. pd[p[1]] # None => content'[pd[p[1]]] = content[pd[p[1]]]
    BY <2>2, <1>1
  <2> QED
    BY <2>3 DEF Walk
<1> QED
  BY <1>2, <1>3

-----------------------------------------------------------------------------
(* The steps *)

\* The boot leaves the emergency entry free and the TLB without translations of these pages.
LEMMA InitInv == Init => Inv
<1> SUFFICES ASSUME Init PROVE Inv
  OBVIOUS
<1>1. \A p \in Page : p[1] \in Dir /\ p[2] \in Entry
  BY DEF Page
<1>2. TypeOK
  BY <1>1 DEF Init, TypeOK
<1>3. EmergencyFollows /\ TablesAreApart /\ OperationAllowed /\ NewTableIsClear
  BY DEF Init, EmergencyFollows, TablesAreApart, OperationAllowed, NewTableIsClear,
         InTable, InNewTable
<1>4. TranslationsAreCurrent /\ NoFault
  BY DEF Init, TranslationsAreCurrent, NoFault
<1> QED
  BY <1>2, <1>3, <1>4 DEF Inv

\* What most steps do to the translations.
TranslationsKept == \A p \in Page : Walk(p)' = Walk(p)

\* The processor fills and empties its TLB.
LEMMA ProcessorInv == Inv /\ Processor => Inv' /\ TranslationsKept
<1> SUFFICES ASSUME Inv, Processor PROVE Inv' /\ TranslationsKept
  OBVIOUS
<1>1. /\ pd' = pd /\ content' = content /\ emergency' = emergency /\ pc' = pc /\ op' = op
      /\ page' = page /\ target' = target /\ new' = new /\ resolved' = resolved
      /\ fault' = fault
  BY DEF Processor, Fill, Evict, FillTable, EvictTable, args
<1>2. \A p \in Page : Walk(p)' = Walk(p)
  BY <1>1 DEF Walk
<1>3. /\ tlb' \in [Page -> Target \cup {None}]
      /\ \A q \in Page : tlb'[q] \in {tlb[q], None, Walk(q)}
  <2>1. ASSUME NEW p \in Page, Fill(p)
        PROVE  /\ tlb' \in [Page -> Target \cup {None}]
               /\ \A q \in Page : tlb'[q] \in {tlb[q], None, Walk(q)}
    BY <2>1, WalkType DEF Fill, Inv, TypeOK
  <2>2. ASSUME NEW p \in Page, Evict(p)
        PROVE  /\ tlb' \in [Page -> Target \cup {None}]
               /\ \A q \in Page : tlb'[q] \in {tlb[q], None, Walk(q)}
    BY <2>2 DEF Evict, Inv, TypeOK
  <2>3. CASE FillTable \/ EvictTable
    BY <2>3 DEF FillTable, EvictTable, Inv, TypeOK
  <2> QED
    BY <2>1, <2>2, <2>3 DEF Processor
<1>4. tlbTable' \in {tlbTable, None, emergency}
  BY DEF Processor, Fill, Evict, FillTable, EvictTable
<1>5. TypeOK'
  BY ZenonT(40), <1>1, <1>3, <1>4 DEF Inv, TypeOK
<1>6. EmergencyFollows' /\ TablesAreApart' /\ NewTableIsClear' /\ NoFault'
  BY <1>1, <1>4 DEF Inv, EmergencyFollows, TablesAreApart, NewTableIsClear, NoFault
<1>7. OperationAllowed'
  <2>1. pc # "idle" => Walk(page)' = Walk(page)
    BY <1>1, <1>2 DEF Inv, OperationAllowed
  <2> QED
    BY <1>1, <2>1 DEF Inv, OperationAllowed, InNewTable
<1>8. TranslationsAreCurrent'
  BY <1>1, <1>2, <1>3 DEF Inv, TranslationsAreCurrent
<1> QED
  BY <1>2, <1>5, <1>6, <1>7, <1>8 DEF Inv, TranslationsKept

\* A caller starts an operation, or meets the panic of its area.
LEMMA CallInv == Inv /\ Call => Inv' /\ TranslationsKept
<1> SUFFICES ASSUME Inv, Call PROVE Inv' /\ TranslationsKept
  OBVIOUS
<1>1. ASSUME NEW p \in Page, NEW o \in {"map", "unmap", "resolve"},
             NEW f \in Target \cup {None}, Begin(o, p, f),
             o = "map" => f \in Target /\ Walk(p) = None,
             o # "map" => Walk(p) # None
      PROVE  Inv' /\ TranslationsKept
  <2>1. /\ pc = "idle" /\ pc' \in {"new table", "enter"}
        /\ op' = o /\ page' = p /\ target' = f
        /\ pd' = pd /\ content' = content /\ emergency' = emergency
        /\ tlb' = tlb /\ tlbTable' = tlbTable
        /\ new' = new /\ resolved' = resolved /\ fault' = fault
    BY <1>1 DEF Begin, cpu
  <2>2. \A q \in Page : Walk(q)' = Walk(q)
    BY <2>1 DEF Walk
  <2>3. p \in Page /\ p # None
    BY NoneAssumption
  <2>4. TypeOK'
    BY <2>1, <2>3 DEF Inv, TypeOK
  <2>5. EmergencyFollows' /\ TablesAreApart' /\ NewTableIsClear' /\ NoFault'
    BY <2>1 DEF Inv, EmergencyFollows, TablesAreApart, NewTableIsClear, NoFault, InTable,
                InNewTable
  <2>6. OperationAllowed'
    BY <1>1, <2>1, <2>2 DEF Begin, OperationAllowed, InNewTable, Walk
  <2>7. TranslationsAreCurrent'
    BY <2>1, <2>2 DEF Inv, TranslationsAreCurrent
  <2> QED
    BY <2>2, <2>4, <2>5, <2>6, <2>7 DEF Inv, TranslationsKept
<1>2. ASSUME NEW p \in Page, PageFaultPanics(p) PROVE Inv' /\ TranslationsKept
  BY <1>2 DEF PageFaultPanics, cpu, args, Inv, TypeOK, EmergencyFollows, TablesAreApart,
     OperationAllowed, NewTableIsClear, TranslationsAreCurrent, NoFault, Walk, InTable,
     InNewTable, TranslationsKept
<1>3. ASSUME NEW p \in Page, UnmapResource(p) \/ Resolve(p) PROVE Inv' /\ TranslationsKept
  BY <1>1, <1>3 DEF UnmapResource, Resolve
<1>4. ASSUME NEW p \in Page, NEW f \in Target, PageFault(p, f) \/ MapResource(p, f) PROVE Inv' /\ TranslationsKept
  BY <1>1, <1>4 DEF PageFault, MapResource
<1> QED
  BY <1>2, <1>3, <1>4 DEF Call

\* create_new_dir takes a frame, clears it and puts it into the directory.
LEMMA NewTableInv ==
  ASSUME Inv, NEW f \in Frame, NEW left \in [Entry -> Target \cup {None}], NewTable(f, left)
  PROVE  Inv' /\ TranslationsKept
<1>1. /\ pc = "new table" /\ pc' = "clear" /\ emergency' = f /\ new' = f /\ f # None
      /\ \A d \in Dir : pd[d] # f
      /\ content' = [content EXCEPT ![f] = left]
      /\ pd' = pd /\ tlb' = tlb /\ tlbTable' = tlbTable
      /\ op' = op /\ page' = page /\ target' = target /\ resolved' = resolved
  BY NoneAssumption DEF NewTable, cpu, args
<1>2. emergency = None /\ tlbTable = None /\ fault' = "none"
  BY <1>1 DEF NewTable, Kassert, Inv, EmergencyFollows
<1>3. /\ \A p \in Page : Walk(p)' = Walk(p)
      /\ content' \in [Frame -> [Entry -> Target \cup {None}]]
  BY <1>1, WriteOutside DEF Inv
<1>4. TypeOK'
  BY <1>1, <1>2, <1>3 DEF Inv, TypeOK
<1>5. EmergencyFollows' /\ TablesAreApart' /\ NewTableIsClear' /\ NoFault'
  BY <1>1, <1>2 DEF Inv, EmergencyFollows, TablesAreApart, NewTableIsClear, NoFault, InTable,
                    InNewTable
<1>6. OperationAllowed'
  BY <1>1 DEF Inv, OperationAllowed, InNewTable
<1>7. TranslationsAreCurrent'
  BY <1>1, <1>3 DEF Inv, TranslationsAreCurrent
<1> QED
  BY <1>3, <1>4, <1>5, <1>6, <1>7 DEF Inv, TranslationsKept

\* No frame for a table is left: the kernel panics.
LEMMA NoNewTableInv == Inv /\ NoNewTable => Inv' /\ TranslationsKept
BY DEF NoNewTable, cpu, args, Inv, TypeOK, EmergencyFollows, TablesAreApart, OperationAllowed,
   NewTableIsClear, TranslationsAreCurrent, NoFault, Walk, InTable, InNewTable,
   TranslationsKept

\* kmemset clears the new table, which is in no entry of the directory yet.
LEMMA ClearTableInv == Inv /\ ClearTable => Inv' /\ TranslationsKept
<1> SUFFICES ASSUME Inv, ClearTable PROVE Inv' /\ TranslationsKept
  OBVIOUS
<1>1. /\ pc = "clear" /\ pc' = "set" /\ pd' = pd /\ emergency' = emergency
      /\ tlb' = tlb /\ tlbTable' = tlbTable
      /\ op' = op /\ page' = page /\ target' = target
      /\ new' = new /\ resolved' = resolved /\ fault' = fault
  BY DEF ClearTable, cpu, args
<1>2. /\ Reached = new /\ new \in Frame /\ new # None /\ \A d \in Dir : pd[d] # new
      /\ content' = [content EXCEPT ![new] = [e \in Entry |-> None]]
  BY <1>1, ReachedIsEmergency, NoneAssumption DEF ClearTable, InNewTable, Inv, TablesAreApart
<1>3. /\ \A p \in Page : Walk(p)' = Walk(p)
      /\ content' \in [Frame -> [Entry -> Target \cup {None}]]
  BY <1>1, <1>2, WriteOutside DEF Inv
<1>4. TypeOK'
  BY <1>1, <1>3 DEF Inv, TypeOK
<1>5. NewTableIsClear'
  BY <1>1, <1>2 DEF Inv, TypeOK, NewTableIsClear
<1>6. EmergencyFollows' /\ TablesAreApart' /\ OperationAllowed' /\ NoFault'
  BY <1>1 DEF Inv, EmergencyFollows, TablesAreApart, OperationAllowed, NoFault, InTable,
              InNewTable
<1>7. TranslationsAreCurrent'
  BY <1>1, <1>3 DEF Inv, TranslationsAreCurrent
<1> QED
  BY <1>3, <1>4, <1>5, <1>6, <1>7 DEF Inv, TranslationsKept

\* The new table goes into the directory with no translation in it.
LEMMA SetTableInv == Inv /\ SetTable => Inv' /\ TranslationsKept
<1> SUFFICES ASSUME Inv, SetTable PROVE Inv' /\ TranslationsKept
  OBVIOUS
<1>1. /\ pc = "set" /\ pc' = "enter" /\ emergency' = None /\ tlbTable' = None
      /\ pd' = [pd EXCEPT ![page[1]] = new] /\ new' = None
      /\ content' = content /\ tlb' = tlb
      /\ op' = op /\ page' = page /\ target' = target
      /\ resolved' = resolved /\ fault' = fault
  BY DEF SetTable, args
<1>2. /\ page \in Page /\ op = "map" /\ target \in Target /\ pd[page[1]] = None
      /\ page[1] \in Dir /\ page[2] \in Entry
      /\ new \in Frame /\ new # None /\ \A d \in Dir : pd[d] # new
      /\ \A e \in Entry : content[new][e] = None
  BY <1>1, ReachedIsEmergency, NoneAssumption, WalkType
     DEF Inv, OperationAllowed, TablesAreApart, NewTableIsClear, InNewTable
<1>3. /\ pd' \in [Dir -> Frame \cup {None}]
      /\ pd'[page[1]] = new
      /\ \A d \in Dir \ {page[1]} : pd'[d] = pd[d]
  BY <1>1, <1>2 DEF Inv, TypeOK
<1>4. ASSUME NEW p \in Page PROVE Walk(p)' = Walk(p)
  <2>1. p[1] \in Dir /\ p[2] \in Entry
    BY WalkType DEF Inv
  <2>2. CASE p[1] = page[1]
    BY <1>1, <1>2, <1>3, <2>1, <2>2 DEF Walk
  <2>3. CASE p[1] # page[1]
    BY <1>1, <1>3, <2>1, <2>3 DEF Walk
  <2> QED
    BY <2>2, <2>3
<1>5. TypeOK'
  BY <1>1, <1>2, <1>3 DEF Inv, TypeOK
<1>6. TablesAreApart'
  BY <1>1, <1>2, <1>3 DEF Inv, TablesAreApart
<1>7. OperationAllowed'
  <2>1. Walk(page)' = None
    BY <1>1, <1>2, <1>4 DEF Walk
  <2> QED
    BY <1>1, <1>2, <1>3, <2>1 DEF OperationAllowed, InNewTable
<1>8. EmergencyFollows' /\ NewTableIsClear' /\ NoFault'
  BY <1>1 DEF Inv, EmergencyFollows, NewTableIsClear, NoFault, InTable, InNewTable
<1>9. TranslationsAreCurrent'
  BY <1>1, <1>4 DEF Inv, TranslationsAreCurrent
<1> QED
  BY <1>4, <1>5, <1>6, <1>7, <1>8, <1>9 DEF Inv, TranslationsKept

\* The emergency entry is pointed at the table of the page in hand.
LEMMA EnterInv == Inv /\ Enter => Inv' /\ TranslationsKept
<1> SUFFICES ASSUME Inv, Enter PROVE Inv' /\ TranslationsKept
  OBVIOUS
<1>1. /\ pc = "enter" /\ pc' = op /\ op \in {"map", "unmap", "resolve"}
      /\ page \in Page /\ emergency' = pd[page[1]] /\ pd[page[1]] # None
      /\ emergency = None /\ tlbTable = None
      /\ pd' = pd /\ content' = content /\ tlb' = tlb /\ tlbTable' = tlbTable
      /\ op' = op /\ page' = page /\ target' = target
      /\ new' = new /\ resolved' = resolved
  BY DEF Enter, cpu, args, Inv, OperationAllowed, EmergencyFollows
<1>2. NoFault'
  BY <1>1 DEF Enter, Kassert, NoFault
<1>3. TypeOK'
  BY <1>1, WalkType DEF Inv, TypeOK
<1>4. \A p \in Page : Walk(p)' = Walk(p)
  BY <1>1 DEF Walk
<1>5. EmergencyFollows' /\ TablesAreApart' /\ NewTableIsClear'
  BY <1>1 DEF Inv, EmergencyFollows, TablesAreApart, NewTableIsClear, InTable, InNewTable
<1>6. OperationAllowed'
  BY <1>1 DEF Inv, OperationAllowed, InNewTable, Walk
<1>7. TranslationsAreCurrent'
  BY <1>1, <1>4 DEF Inv, TranslationsAreCurrent
<1> QED
  BY <1>2, <1>3, <1>4, <1>5, <1>6, <1>7 DEF Inv, TranslationsKept

\* The entry of the page in hand is written: a page is mapped that had no translation, or
\* unmapped.
LEMMA WriteInv ==
  ASSUME Inv, MapPage \/ UnmapPage
  PROVE  /\ Inv'
         /\ page \in Page
         /\ \/ /\ Walk(page) = None /\ target \in Target
               /\ \A p \in Page : Walk(p)' = IF p = page THEN target ELSE Walk(p)
            \/ /\ Walk(page) # None
               /\ \A p \in Page : Walk(p)' = IF p = page THEN None ELSE Walk(p)
<1>1. PICK x \in Target \cup {None} :
        /\ \/ pc = "map" /\ pc' = "leave" /\ x = target
           \/ pc = "unmap" /\ pc' = "flush" /\ x = None
        /\ content' = [content EXCEPT ![Reached][page[2]] = x]
        /\ pd' = pd /\ emergency' = emergency /\ tlb' = tlb /\ tlbTable' = tlbTable
        /\ op' = op /\ page' = page /\ target' = target
        /\ new' = new /\ resolved' = resolved
  BY DEF MapPage, UnmapPage, cpu, args, Inv, TypeOK
<1>2. page \in Page /\ pc = op /\ pc \in InTable
  BY <1>1 DEF Inv, OperationAllowed, InTable
<1>3. content[Reached][page[2]] = Walk(page)
  BY <1>2, ReachedIsEmergency, NoneAssumption DEF Walk
<1>4. NoFault'
  BY <1>1, <1>2, <1>3 DEF MapPage, UnmapPage, Kassert, NoFault, Inv, OperationAllowed
<1>5. /\ \A p \in Page : Walk(p)' = IF p = page THEN x ELSE Walk(p)
      /\ content' \in [Frame -> [Entry -> Target \cup {None}]]
  BY <1>1, <1>2, WriteEntry
<1>6. TypeOK'
  BY <1>1, <1>5 DEF Inv, TypeOK
<1>7. EmergencyFollows' /\ TablesAreApart' /\ NewTableIsClear'
  BY <1>1 DEF Inv, EmergencyFollows, TablesAreApart, NewTableIsClear, InTable, InNewTable
<1>8. OperationAllowed'
  <2>1. Walk(page)' = x
    BY <1>1, <1>2, <1>5 DEF Walk
  <2> QED
    BY <1>1, <1>2, <2>1 DEF Inv, OperationAllowed, InNewTable
<1>9. TranslationsAreCurrent'
  <2>1. CASE pc = "map"
    <3>1. Walk(page) = None
      BY <1>2, <2>1 DEF Inv, OperationAllowed
    <3>2. tlb[page] = None
      BY <1>2, <2>1, <3>1 DEF Inv, TranslationsAreCurrent
    <3> QED
      BY <1>1, <1>5, <2>1, <3>2 DEF Inv, TranslationsAreCurrent
  <2>2. CASE pc = "unmap"
    BY <1>1, <1>5, <2>2 DEF Inv, TranslationsAreCurrent
  <2> QED
    BY <1>1, <2>1, <2>2
<1>10. \/ /\ Walk(page) = None /\ target \in Target
          /\ \A p \in Page : Walk(p)' = IF p = page THEN target ELSE Walk(p)
       \/ /\ Walk(page) # None
          /\ \A p \in Page : Walk(p)' = IF p = page THEN None ELSE Walk(p)
  <2>1. CASE pc = "map"
    BY <1>1, <1>2, <1>5, <2>1 DEF Inv, OperationAllowed
  <2>2. CASE pc = "unmap"
    BY <1>1, <1>2, <1>5, <2>2 DEF Inv, OperationAllowed
  <2> QED
    BY <1>1, <2>1, <2>2
<1> QED
  BY <1>2, <1>4, <1>6, <1>7, <1>8, <1>9, <1>10 DEF Inv

\* The translation of the unmapped page is dropped.
LEMMA FlushInv == Inv /\ Flush => Inv' /\ TranslationsKept
<1> SUFFICES ASSUME Inv, Flush PROVE Inv' /\ TranslationsKept
  OBVIOUS
<1>1. /\ pc = "flush" /\ pc' = "leave" /\ tlb' = [tlb EXCEPT ![page] = None]
      /\ pd' = pd /\ content' = content /\ emergency' = emergency /\ tlbTable' = tlbTable
      /\ op' = op /\ page' = page /\ target' = target
      /\ new' = new /\ resolved' = resolved /\ fault' = fault
  BY DEF Flush, args
<1>2. \A p \in Page : Walk(p)' = Walk(p)
  BY <1>1 DEF Walk
<1>3. TypeOK'
  BY <1>1 DEF Inv, TypeOK
<1>4. /\ EmergencyFollows' /\ TablesAreApart' /\ OperationAllowed' /\ NewTableIsClear'
      /\ NoFault'
  BY <1>1 DEF Inv, EmergencyFollows, TablesAreApart, OperationAllowed, NewTableIsClear,
              NoFault, InTable, InNewTable
<1>5. TranslationsAreCurrent'
  BY <1>1, <1>2 DEF Inv, TypeOK, TranslationsAreCurrent
<1> QED
  BY <1>2, <1>3, <1>4, <1>5 DEF Inv, TranslationsKept

\* The entry of the page in hand is read.
LEMMA ResolvePageInv == Inv /\ ResolvePage => Inv' /\ TranslationsKept
<1> SUFFICES ASSUME Inv, ResolvePage PROVE Inv' /\ TranslationsKept
  OBVIOUS
<1>1. /\ pc = "resolve" /\ pc' = "leave" /\ pc = op /\ page \in Page
      /\ resolved' = <<page, content[Reached][page[2]]>>
      /\ pd' = pd /\ content' = content /\ emergency' = emergency
      /\ tlb' = tlb /\ tlbTable' = tlbTable
      /\ op' = op /\ page' = page /\ target' = target /\ new' = new
  BY DEF ResolvePage, cpu, args, Inv, OperationAllowed
<1>2. content[Reached][page[2]] = Walk(page) /\ Walk(page) # None
  BY <1>1, ReachedIsEmergency, NoneAssumption DEF Walk, InTable, Inv, OperationAllowed
<1>3. \A p \in Page : Walk(p)' = Walk(p)
  BY <1>1 DEF Walk
<1>4. TypeOK'
  BY <1>1, <1>2, WalkType DEF Inv, TypeOK
<1>5. EmergencyFollows' /\ TablesAreApart' /\ OperationAllowed' /\ NewTableIsClear'
  BY <1>1 DEF Inv, EmergencyFollows, TablesAreApart, OperationAllowed, NewTableIsClear,
              InTable, InNewTable
<1>6. NoFault'
  BY <1>2 DEF ResolvePage, Kassert, NoFault
<1>7. TranslationsAreCurrent'
  BY <1>1, <1>3 DEF Inv, TranslationsAreCurrent
<1> QED
  BY <1>3, <1>4, <1>5, <1>6, <1>7 DEF Inv, TranslationsKept

\* The emergency entry is given back.
LEMMA LeaveInv == Inv /\ Leave => Inv' /\ TranslationsKept
<1> SUFFICES ASSUME Inv, Leave PROVE Inv' /\ TranslationsKept
  OBVIOUS
<1>1. /\ pc = "leave" /\ pc' = "idle" /\ emergency' = None /\ tlbTable' = None
      /\ op' = "none" /\ page' = None /\ target' = None
      /\ pd' = pd /\ content' = content /\ tlb' = tlb
      /\ new' = new /\ resolved' = resolved
  BY DEF Leave
<1>2. emergency # None
  BY <1>1 DEF Inv, EmergencyFollows, InTable
<1>3. \A p \in Page : Walk(p)' = Walk(p)
  BY <1>1 DEF Walk
<1>4. TypeOK'
  BY <1>1 DEF Inv, TypeOK
<1>5. EmergencyFollows' /\ TablesAreApart' /\ OperationAllowed' /\ NewTableIsClear'
  BY <1>1 DEF Inv, EmergencyFollows, TablesAreApart, OperationAllowed, NewTableIsClear,
              InTable, InNewTable
<1>6. NoFault'
  BY <1>2 DEF Leave, Kassert, NoFault
<1>7. TranslationsAreCurrent'
  BY <1>1, <1>3 DEF Inv, TranslationsAreCurrent
<1> QED
  BY <1>3, <1>4, <1>5, <1>6, <1>7 DEF Inv, TranslationsKept

\* Every step of the kernel and of the processor keeps the invariant.
LEMMA NextInv == Inv /\ [Next]_vars => Inv'
<1> SUFFICES ASSUME Inv, [Next]_vars PROVE Inv'
  OBVIOUS
<1>1. CASE Call
  BY <1>1, CallInv
<1>2. CASE Step
  <2>1. CASE \E f \in Frame, left \in [Entry -> Target \cup {None}] : NewTable(f, left)
    BY <2>1, NewTableInv
  <2>2. CASE MapPage \/ UnmapPage
    BY <2>2, WriteInv
  <2>3. CASE NoNewTable \/ ClearTable \/ SetTable
    BY <2>3, NoNewTableInv, ClearTableInv, SetTableInv
  <2>4. CASE Enter \/ Flush \/ ResolvePage \/ Leave
    BY <2>4, EnterInv, FlushInv, ResolvePageInv, LeaveInv
  <2> QED
    BY <1>2, <2>1, <2>2, <2>3, <2>4 DEF Step
<1>3. CASE Processor
  BY <1>3, ProcessorInv
<1>4. CASE UNCHANGED vars
  <2>1. /\ pd' = pd /\ content' = content /\ emergency' = emergency
        /\ tlb' = tlb /\ tlbTable' = tlbTable /\ pc' = pc
        /\ op' = op /\ page' = page /\ target' = target
        /\ new' = new /\ resolved' = resolved /\ fault' = fault
    BY <1>4 DEF vars, cpu, args
  <2>2. TypeOK'
    BY ZenonT(40), <2>1 DEF Inv, TypeOK
  <2>3. EmergencyFollows' /\ TablesAreApart' /\ NewTableIsClear' /\ NoFault'
    BY <2>1 DEF Inv, EmergencyFollows, TablesAreApart, NewTableIsClear, NoFault
  <2>4. OperationAllowed'
    BY <2>1 DEF Inv, OperationAllowed, Walk
  <2>5. TranslationsAreCurrent'
    BY <2>1 DEF Inv, TranslationsAreCurrent, Walk
  <2> QED
    BY <2>2, <2>3, <2>4, <2>5 DEF Inv
<1> QED
  BY <1>1, <1>2, <1>3, <1>4 DEF Next

\* The invariant holds at every step of every operation of vm.c.
THEOREM InvariantHolds == Spec => []Inv
BY InitInv, NextInv, PTL DEF Spec

-----------------------------------------------------------------------------
(* The theorems *)

\* The tables, the emergency entry and the TLB are well typed: whatever vm_arch_pt_map and
\* the others read and write, it is the entry of a table.
THEOREM TypeCorrect == Spec => []TypeOK
<1>1. Inv => TypeOK
  BY DEF Inv
<1> QED
  BY <1>1, InvariantHolds, PTL

\* Between get_pge_for_vaddr and free_emergency_entry, EMERGENCY_DIR is the table in hand,
\* whatever the processor keeps.
THEOREM EmergencyEntryIsRight == Spec => []EmergencyReachesTable
<1>1. Inv => EmergencyReachesTable
  BY ReachedIsEmergency DEF EmergencyReachesTable, InTable, InNewTable
<1> QED
  BY <1>1, InvariantHolds, PTL

\* i686_vm_tlb_invlpg is called wherever it is needed: the processor uses no translation that
\* the tables do not have.
THEOREM NoStaleTranslation == Spec => []TranslationsAreCurrent
<1>1. Inv => TranslationsAreCurrent
  BY DEF Inv
<1> QED
  BY <1>1, InvariantHolds, PTL

\* No kassert of vm.c fails, as long as the callers map and unmap what they may.
THEOREM AssertionsHold == Spec => []NoFault
<1>1. Inv => NoFault
  BY DEF Inv
<1> QED
  BY <1>1, InvariantHolds, PTL

\* vm_arch_pt_map and vm_arch_pt_unmap implement a map from pages to frames: all other
\* steps, create_new_dir among them, change no translation.
THEOREM PageTablesImplementAddressMap == Spec => ImplementsAddressMap
<1> DEFINE map == [p \in Page |-> Walk(p)]
<1>1. Init => AM!Init
  BY WalkType DEF Init, AM!Init, Walk, Page
<1>2. ASSUME Inv, [Next]_vars PROVE [AM!Next]_map
  <2>1. TranslationsKept => map' = map
    BY DEF TranslationsKept
  <2>2. CASE MapPage \/ UnmapPage
    <3>1. CASE /\ Walk(page) = None /\ target \in Target
               /\ \A p \in Page : Walk(p)' = IF p = page THEN target ELSE Walk(p)
      <4>1. map[page] = None /\ map' = [map EXCEPT ![page] = target]
        BY <2>2, <3>1, WriteInv, <1>2
      <4> QED
        BY <4>1, <3>1, <2>2, <1>2, WriteInv DEF AM!Next, AM!Map
    <3>2. CASE /\ Walk(page) # None
               /\ \A p \in Page : Walk(p)' = IF p = page THEN None ELSE Walk(p)
      <4>1. map[page] # None /\ map' = [map EXCEPT ![page] = None]
        BY <2>2, <3>2, WriteInv, <1>2
      <4> QED
        BY <4>1, <2>2, <1>2, WriteInv DEF AM!Next, AM!Unmap
    <3> QED
      BY <1>2, <2>2, <3>1, <3>2, WriteInv
  <2>3. CASE UNCHANGED vars
    BY <2>3 DEF vars, Walk
  <2>4. CASE Next /\ ~MapPage /\ ~UnmapPage
    <3>1. TranslationsKept
      BY <1>2, <2>4, CallInv, ProcessorInv, NewTableInv, NoNewTableInv, ClearTableInv,
         SetTableInv, EnterInv, FlushInv, ResolvePageInv, LeaveInv DEF Next, Step
    <3> QED
      BY <3>1, <2>1
  <2> QED
    BY <1>2, <2>2, <2>3, <2>4
<1> QED
  BY <1>1, <1>2, InvariantHolds, PTL DEF Spec, ImplementsAddressMap, AM!Spec

=============================================================================
