------------------------ MODULE ConfigRowsRefinement ------------------------
(***************************************************************************)
(* ConfigRows implements Register: the handlers, the migration's outcome   *)
(* and the API, each of which reads the file, checks, changes a copy and   *)
(* writes it back, take effect in one step each.                           *)
(***************************************************************************)
EXTENDS ConfigRowsProofs

-----------------------------------------------------------------------------
(***************************************************************************)
(* The mapping                                                             *)
(***************************************************************************)
\* The register is what the writer inside has read, or else the file.
Found == /\ Unlocked => SeenOf = Content(file)
         /\ \A w \in Writer : at[w] = "inside" => SeenOf = Content(copy[w])

LEMMA FoundHolds == (TypeInv => Found) /\ (TypeInv' => Found')
  <1>1. ASSUME TypeInv, NEW w \in Writer, at[w] = "inside"
        PROVE  (CHOOSE v \in Writer : at[v] = "inside") = w
    BY <1>1 DEF TypeInv, TypeOK
  <1>2. ASSUME TypeInv', NEW w \in Writer, at'[w] = "inside"
        PROVE  (CHOOSE v \in Writer : at'[v] = "inside") = w
    BY <1>2 DEF TypeInv, TypeOK
  <1>3. TypeInv => Found
    BY <1>1 DEF Found, SeenOf, Unlocked
  <1>4. TypeInv' => Found'
    <2>1. ASSUME TypeInv', NEW w \in Writer, at'[w] = "inside"
          PROVE  SeenOf' = Content(copy'[w])
      <3>1. ~ Unlocked' /\ (CHOOSE v \in Writer : at'[v] = "inside") = w
        BY <1>2, <2>1 DEF Unlocked
      <3>2. SeenOf' = Content(copy'[CHOOSE v \in Writer : at'[v] = "inside"])
        BY <3>1, Zenon DEF SeenOf, Content, RowsOf, Places, RowAt
      <3> QED
        BY <3>1, <3>2
    <2>2. Unlocked' => SeenOf' = Content(file')
      BY DEF SeenOf, Content, RowsOf, Places, RowAt
    <2> QED
      BY <2>1, <2>2, Zenon DEF Found, Content, RowsOf, Places, RowAt
  <1> QED
    BY <1>3, <1>4

\* One writer has its answer, or has made a request.
LEMMA PendingOne ==
    ASSUME TypeInv, TypeInv', NEW w \in Writer,
           \A v \in Writer \ {w} : at'[v] = at[v] /\ req'[v] = req[v]
    PROVE  PendingOf' = [PendingOf EXCEPT ![w] = PendingOf'[w]]
  BY DEF PendingOf, KindOf

\* Nobody has asked, nor been answered.
LEMMA PendingSame ==
    ASSUME TypeInv, TypeInv', UNCHANGED req,
           \A v \in Writer : at'[v] = "idle" <=> at[v] = "idle"
    PROVE  PendingOf' = PendingOf
  BY DEF PendingOf, KindOf

\* A file that can be read.
LEMMA ContentFacts ==
    ASSUME NEW f \in File
    PROVE  Content(f) = [whole |-> TRUE, rows |-> RowsOf(f)]
  BY ValuesAssumption DEF Content

-----------------------------------------------------------------------------
(***************************************************************************)
(* Steps                                                                   *)
(***************************************************************************)
LEMMA SendsAsks ==
    ASSUME TypeInv, TypeInv', NEW w \in Writer, NEW q, Sends(w, q), Readable
    PROVE  Reg!Ask(w)
  <1>1. /\ at[w] = "idle" /\ at' = [at EXCEPT ![w] = "sent"]
        /\ req' = [req EXCEPT ![w] = q]
        /\ UNCHANGED <<file, copy, upsets>> /\ Unlocked
    BY DEF Sends
  <1>2. Unlocked'
    BY <1>1 DEF Unlocked, TypeInv, TypeOK
  <1>3. SeenOf = Content(file) /\ SeenOf' = Content(file)'
    BY <1>1, <1>2, FoundHolds DEF Found
  <1>4. Content(file)' = Content(file)
    BY <1>1 DEF Content, RowsOf, Places, RowAt
  <1>5. Content(file).whole
    BY ContentFacts DEF TypeInv, TypeOK, Readable
  <1>6. PendingOf' = [PendingOf EXCEPT ![w] = PendingOf'[w]]
    <2>1. \A v \in Writer \ {w} : at'[v] = at[v] /\ req'[v] = req[v]
      BY <1>1 DEF TypeInv, TypeOK
    <2> QED
      BY <2>1, PendingOne
  <1>7. PendingOf[w] = "none" /\ PendingOf'[w] \in {"row", "server", "deletion"}
    BY <1>1 DEF PendingOf, KindOf, TypeInv, TypeOK
  <1> QED
    BY <1>1, <1>3, <1>4, <1>5, <1>6, <1>7 DEF Reg!Ask, Reg!Request

\* A request that is refused or fails.
LEMMA LeavesDeclines ==
    ASSUME TypeInv, TypeInv', NEW w \in Writer, Leaves(w), UNCHANGED <<file, upsets>>,
           at[w] # "idle", Unlocked \/ at[w] = "inside"
    PROVE  Reg!Decline(w)
  <1>1. /\ at' = [at EXCEPT ![w] = "idle"] /\ req' = [req EXCEPT ![w] = NoRequest]
        /\ at'[w] = "idle"
        /\ \A v \in Writer \ {w} : at'[v] = at[v] /\ req'[v] = req[v]
    BY DEF Leaves, TypeInv, TypeOK
  <1>2. Unlocked'
    BY <1>1 DEF Unlocked, TypeInv, TypeOK
  <1>3. SeenOf' = Content(file)' /\ Content(file)' = Content(file)
    BY <1>2, FoundHolds DEF Found, Content, RowsOf, Places, RowAt
  <1>4. PendingOf[w] # "none" /\ PendingOf'[w] = "none"
    BY <1>1 DEF PendingOf, KindOf
  <1>5. PendingOf' = [PendingOf EXCEPT ![w] = "none"]
    BY <1>1, <1>4, PendingOne
  <1> QED
    BY <1>3, <1>4, <1>5 DEF Reg!Decline

\* What a handler writes takes effect at once.
LEMMA WritesApplies ==
    ASSUME TypeInv, TypeInv', NEW w \in Writer, at[w] = "inside", NEW g,
           Writes(w, g), Effect(copy[w], req[w], g)
    PROVE  Reg!Apply(w)
  <1> DEFINE f == copy[w]
             q == req[w]
  <1>1. /\ file' = g /\ at'[w] = "idle" /\ UNCHANGED upsets
        /\ \A v \in Writer \ {w} : at'[v] = at[v] /\ req'[v] = req[v]
    BY WrittenFile DEF Writes
  <1>2. Unlocked'
    BY <1>1 DEF Unlocked, TypeInv, TypeOK
  <1>3. SeenOf = Content(f) /\ SeenOf' = Content(file)'
    BY <1>2, FoundHolds DEF Found
  <1>4. f \in File /\ g \in File /\ Lands(f, q, g)
    BY DEF Effect, TypeInv, TypeOK
  <1>5. Content(f) = [whole |-> TRUE, rows |-> RowsOf(f)]
    BY <1>4, ContentFacts
  <1>6. Content(file)' = [whole |-> TRUE, rows |-> RowsOf(g)]
    <2>1. Content(file)' = Content(g)
      BY <1>1 DEF Content, RowsOf, Places, RowAt
    <2> QED
      BY <1>4, <2>1, ContentFacts
  <1>7. PendingOf[w] = KindOf(q) /\ PendingOf'[w] = "none"
    BY <1>1 DEF PendingOf
  <1>8. PendingOf' = [PendingOf EXCEPT ![w] = "none"]
    BY <1>1, <1>7, PendingOne
  <1>9. q.op \in Op
    BY DEF TypeInv, TypeOK, Request
  <1> HIDE DEF f, q
  <1>10. \/ PendingOf[w] = "row" /\ Reg!ChangesRow(RowsOf(f), RowsOf(g))
         \/ PendingOf[w] = "server" /\ RowsOf(g) = RowsOf(f)
         \/ PendingOf[w] = "deletion" /\ RowsOf(g) \subseteq RowsOf(f)
    BY <1>4, <1>7, <1>9 DEF KindOf, Lands, Op
  <1> QED
    BY <1>1, <1>3, <1>5, <1>6, <1>8, <1>10 DEF Reg!Apply

\* A handler that has taken the lock has found the register and changed nothing.
LEMMA EnterStutters ==
    ASSUME TypeInv, TypeInv', NEW w \in Writer, Enter(w)
    PROVE  UNCHANGED Reg!registerVars
  <1>1. /\ at[w] = "sent" /\ Unlocked /\ at' = [at EXCEPT ![w] = "inside"]
        /\ copy' = [copy EXCEPT ![w] = file] /\ UNCHANGED <<file, req, upsets>>
    BY DEF Enter
  <1>2. at'[w] = "inside" /\ copy'[w] = file
    BY <1>1 DEF TypeInv, TypeOK
  <1>3. SeenOf' = Content(copy[w])' /\ SeenOf = Content(file)
    BY <1>1, <1>2, FoundHolds DEF Found
  <1>4. Content(copy[w])' = Content(file) /\ Content(file)' = Content(file)
    <2>1. Content(copy[w])' = Content(copy'[w]) /\ Content(file)' = Content(file')
      BY Zenon DEF Content, RowsOf, Places, RowAt
    <2> QED
      BY <1>1, <1>2, <2>1
  <1>5. PendingOf' = PendingOf
    BY <1>1, PendingSame DEF TypeInv, TypeOK
  <1> QED
    BY <1>1, <1>3, <1>4, <1>5 DEF Reg!registerVars

\* While a handler is inside, an edit by hand is not found.
LEMMA HandEditEdits ==
    ASSUME TypeInv, TypeInv', HandEdit
    PROVE  Reg!Edit
  <1>1. /\ UNCHANGED <<at, req, copy>>
        /\ upsets' = IF Readable THEN upsets + 1 ELSE upsets
    BY DEF HandEdit
  <1>2. PendingOf' = PendingOf
    BY <1>1, PendingSame
  <1>3. Content(file).whole <=> Readable
    BY DEF Content, Readable
  <1>4. SeenOf' \in {SeenOf, Content(file)'}
    <2>1. CASE Unlocked
      <3>1. Unlocked'
        BY <1>1, <2>1 DEF Unlocked
      <3> QED
        BY <3>1, FoundHolds DEF Found
    <2>2. CASE ~ Unlocked
      <3>1. PICK w \in Writer : at[w] = "inside"
        BY <2>2 DEF Unlocked
      <3>2. SeenOf = Content(copy[w]) /\ SeenOf' = Content(copy[w])'
        BY <1>1, <3>1, FoundHolds DEF Found
      <3>3. Content(copy[w])' = Content(copy[w])
        BY <1>1 DEF Content, RowsOf, Places, RowAt
      <3> QED
        BY <3>2, <3>3
    <2> QED
      BY <2>1, <2>2
  <1> QED
    BY <1>1, <1>2, <1>3, <1>4 DEF Reg!Edit

LEMMA CrashCrashes ==
    ASSUME TypeInv, TypeInv', CrashAndRestart
    PROVE  Reg!Crash
  <1>1. /\ upsets' = upsets + 1 /\ file' \in {file, Unreadable}
        /\ \A w \in Writer : \/ at'[w] = "idle"
                             \/ at'[w] = at[w] /\ at[w] # "inside" /\ req'[w] = req[w]
    BY DEF CrashAndRestart, TypeInv, TypeOK
  <1>2. Unlocked'
    BY <1>1 DEF Unlocked
  <1>3. SeenOf' = Content(file)'
    BY <1>2, FoundHolds DEF Found
  <1>4. \A w \in Writer : PendingOf'[w] \in {PendingOf[w], "none"}
    BY <1>1 DEF PendingOf, KindOf
  <1>5. Content(file)' = Content(file) \/ ~ Content(file)'.whole
    <2>1. Content(file)' = Content(file')
      BY Zenon DEF Content, RowsOf, Places, RowAt
    <2>2. ~ Content(Unreadable).whole
      BY DEF Content
    <2> QED
      BY <1>1, <2>1, <2>2
  <1> QED
    BY <1>1, <1>3, <1>4, <1>5 DEF Reg!Crash

\* Every step is one of Register or changes nothing there.
LEMMA RegisterStep ==
    ASSUME TypeInv, TypeInv', [Next]_vars
    PROVE  [Reg!RegisterNext]_(Reg!registerVars)
  <1>1. ASSUME NEW c \in Client, Asking(c)
        PROVE  \E w \in Writer : Reg!Ask(w)
    <2>1. Readable
      BY <1>1, Zenon DEF Asking, AskForRow, AskForServer, AskOfServer
    <2>2. PICK q : Sends(c, q)
      BY <1>1, AskingSends
    <2>3. c \in Writer
      BY DEF Writer
    <2> QED
      BY <2>1, <2>2, <2>3, SendsAsks
  <1>2. CASE RunMigration
    <2>1. Readable /\ \E q : Sends("loop", q)
      BY <1>2, Zenon DEF RunMigration
    <2>2. "loop" \in Writer
      BY DEF Writer
    <2>3. \E w \in Writer : Reg!Ask(w)
      BY <2>1, <2>2, SendsAsks
    <2> QED
      BY <2>3 DEF Reg!RegisterNext
  <1>3. ASSUME NEW w \in Writer, Handler(w)
        PROVE  Reg!Apply(w) \/ Reg!Decline(w) \/ UNCHANGED Reg!registerVars
    <2>1. CASE Enter(w)
      BY <2>1, EnterStutters
    <2>2. CASE Refuse(w) \/ WriteFails(w)
      <3>1. /\ Leaves(w) /\ UNCHANGED <<file, upsets>>
            /\ at[w] # "idle" /\ (Unlocked \/ at[w] = "inside")
        BY <2>2 DEF Refuse, WriteFails
      <3> QED
        BY <3>1, LeavesDeclines
    <2>3. CASE at[w] = "inside" /\ \E g : Writes(w, g) /\ Effect(copy[w], req[w], g)
      BY <2>3, WritesApplies
    <2> QED
      BY <1>3, <2>1, <2>2, <2>3, Outcomes
  <1>4. CASE HandEdit
    BY <1>4, HandEditEdits DEF Reg!RegisterNext
  <1>5. CASE CrashAndRestart
    BY <1>5, CrashCrashes DEF Reg!RegisterNext
  <1>6. CASE UNCHANGED vars
    <2>1. UNCHANGED <<file, at, req, copy, upsets>>
      BY <1>6 DEF vars
    <2>2. PendingOf' = PendingOf
      BY <2>1, PendingSame
    <2>3. Content(file)' = Content(file) /\ SeenOf' = SeenOf
      BY <2>1 DEF SeenOf, Unlocked, Content, RowsOf, Places, RowAt
    <2> QED
      BY <2>1, <2>2, <2>3 DEF Reg!registerVars
  <1> QED
    BY <1>1, <1>2, <1>3, <1>4, <1>5, <1>6 DEF Next, Reg!RegisterNext

\* The config file is a Register: for any clients, names, initial files, edits by
\* hand and crashes, every form, API call and migration's outcome takes effect in
\* one step on what it has read and checked, changes one row (the deletion of a
\* server only takes rows away), takes no Secret that a live row has at that moment,
\* and loses nothing but an edit by hand that was made while it held the lock.
THEOREM ConfigRowsImplementRegister == Spec => ImplementsRegister
  <1>1. Init => Reg!RegisterInit
    <2> SUFFICES ASSUME Init PROVE Reg!RegisterInit
      OBVIOUS
    <2>1. TypeInv
      BY TypeInit
    <2>2. Unlocked /\ file \in File
      BY InitialAssumption DEF Init, Unlocked
    <2>3. SeenOf = Content(file) /\ Content(file).whole
      BY <2>1, <2>2, FoundHolds, ContentFacts DEF Found
    <2> QED
      BY <2>3 DEF Init, Reg!RegisterInit, PendingOf
  <1>2. TypeInv /\ TypeInv' /\ [Next]_vars => [Reg!RegisterNext]_(Reg!registerVars)
    BY RegisterStep
  <1> QED
    BY <1>1, <1>2, TypeInit, TypeNext, PTL DEF Spec, ImplementsRegister, Reg!RegisterSpec

=============================================================================
