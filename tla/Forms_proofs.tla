----------------------------- MODULE Forms_proofs ------------------------------
(* What is true of the forms of a page: of its validator, whichever of its fields ask   *)
(* the server; of what is gathered of its fields, however many there are; and of its   *)
(* submissions, whatever the user and the callbacks do to the fields meanwhile; of the  *)
(* number of a card, however long it is; and of the rules of a field, whatever sets them. *)
EXTENDS Validate, FormUpload, CreditCard, ValidateRules, Arrays_proofs, FiniteSetTheorems, TLAPS

--------------------------------------------------------------------------------
(* The validator (Validate).                                                         *)

Validator ==
  [pendingRequest : Nat, pending : SUBSET Remote, formSubmitted : BOOLEAN,
   invalid : SUBSET Fields, submitted : SUBSET Fields, lastElement : SUBSET Fields,
   cancelSubmit : BOOLEAN, errorList : SUBSET Fields, currentElements : SUBSET Fields,
   toShow : SUBSET Labels, toHide : SUBSET Labels, shown : SUBSET Labels,
   highlighted : SUBSET Fields,
   old : [Remote -> {"", "taken", "good"}], valid : [Remote -> BOOLEAN]]

ValueType == value \in [Fields -> FieldValues]

ErrorsOf(w, E) == {e \in E : Verdict(w, e) = "error"}

\* One field that asks the server, at most.
OneRemote == \A e, f \in Remote : e = f

\* No count is lost: one field asks at most, or an aborted request says nothing.
NoneLost == OneRemote \/ TRUE \notin AbortAnswers

\* The fields whose open request answers null when it is aborted, where no count is lost.
Quiet(nulls) == (nulls = {} \/ OneRemote) /\ (TRUE \notin AbortAnswers => nulls = {})

\* Two states of the validator that differ in what is shown at most.
SameAsked(w, u) ==
  /\ u.pendingRequest = w.pendingRequest /\ u.pending = w.pending
  /\ u.old = w.old /\ u.valid = w.valid
  /\ u.formSubmitted = w.formSubmitted /\ u.cancelSubmit = w.cancelSubmit

\* u is what a check of the fields E makes of w, as far as the server is asked.
Checks(w, E, nulls, u) ==
  LET A == AskedOf(w, E)
      N == Nulled(w, E, nulls)
  IN /\ u \in Validator
     /\ u.pending = (w.pending \cup A) \ N /\ u.pendingRequest = Cardinality(u.pending)
     /\ u.old = [e \in Remote |-> IF e \in A THEN value[e] ELSE w.old[e]]
     /\ u.cancelSubmit = w.cancelSubmit
     /\ N = {} => u.valid = w.valid /\ u.formSubmitted = w.formSubmitted
     /\ N # {} => ~ u.formSubmitted /\ u.valid = [e \in Remote |-> w.valid[e] /\ e \notin N]

--------------------------------------------------------------------------------
(* What the functions of the validator make of its state.                              *)

LEMMA PrepareFacts ==
  ASSUME NEW w \in Validator, NEW hide \in SUBSET Labels
  PROVE  LET u == Prepare(w, hide)
         IN /\ u \in Validator /\ SameAsked(w, u)
            /\ u.errorList = {} /\ u.currentElements = {} /\ u.toShow = {} /\ u.toHide = hide
            /\ u.shown = w.shown /\ u.highlighted = w.highlighted
BY DEF Prepare, Validator, SameAsked

LEMMA ShowErrorsFacts ==
  ASSUME NEW w \in Validator
  PROVE  LET u == ShowErrors(w)
             show == w.toShow \cup w.errorList \cup (IF w.errorList # {} THEN {Box} ELSE {})
         IN /\ u \in Validator /\ SameAsked(w, u) /\ u.errorList = w.errorList
            /\ u.toShow = show /\ u.toHide = w.toHide \ show
            /\ u.shown = (w.shown \ w.toHide) \cup show
            /\ u.highlighted = (w.highlighted \cup w.errorList) \ (w.currentElements \ w.errorList)
BY ZenonT(60) DEF ShowErrors, Validator, SameAsked, Labels

\* Of any part of the fields that ask, there are as many as there are.
LEMMA PartOfRemote ==
  ASSUME NEW S \in SUBSET Remote PROVE IsFiniteSet(S) /\ Cardinality(S) \in Nat
<1>1. IsFiniteSet(S)
  BY ValidateAssumption, FS_Subset
<1> QED
  BY <1>1, FS_CardinalityType

LEMMA LargestOf ==
  ASSUME NEW S, NEW x \in S, x \in Int, \A y \in S : y \in Int /\ y <= x PROVE Max(S) = x
<1> DEFINE m == CHOOSE z \in S : \A y \in S : z >= y
<1>1. m \in S /\ \A y \in S : m >= y
  OBVIOUS
<1> HIDE DEF m
<1>2. m \in Int /\ m >= x /\ m <= x
  BY <1>1
<1>3. m = x
  BY <1>2
<1> QED
  BY <1>3 DEF Max, m

\* What is counted after a check are the fields that are pending then, where no count is lost.
LEMMA CountFacts ==
  ASSUME NEW w, w.pending \subseteq Remote, w.pendingRequest = Cardinality(w.pending),
         NEW E \in SUBSET Fields, NEW nulls, nulls = {} \/ OneRemote
  PROVE  CountAfter(w, E, AskedOf(w, E) \ w.pending, nulls)
           = Cardinality((w.pending \cup AskedOf(w, E)) \ Nulled(w, E, nulls))
<1> DEFINE A == AskedOf(w, E)
           N == Nulled(w, E, nulls)
           P == w.pending
           up == (A \ P) \ nulls
           down == N \cap P
           Net(S) == Cardinality(up \cap S) - Cardinality(down \cap S)
           Rest(e) == {f \in E : f > e}
           counts == {Cardinality(P) + Net(E)} \cup {Net(Rest(e)) : e \in E}
           x == Cardinality((P \cup A) \ N)
<1>1. /\ A \subseteq Remote /\ A \subseteq E /\ N = A \cap nulls /\ P \subseteq Remote
      /\ N \subseteq Remote
  BY DEF AskedOf, Asks, Nulled
<1>2. CountAfter(w, E, A \ P, nulls) = Max(counts)
  BY DEF CountAfter
<1>3. \A S : Cardinality(up \cap S) \in Nat /\ Cardinality(down \cap S) \in Nat
  <2> TAKE S
  <2>1. up \cap S \in SUBSET Remote /\ down \cap S \in SUBSET Remote
    BY <1>1
  <2> QED
    BY <2>1, PartOfRemote
<1>4. Cardinality(P) \in Nat /\ x \in Nat
  <2>1. P \in SUBSET Remote /\ (P \cup A) \ N \in SUBSET Remote
    BY <1>1
  <2> QED
    BY <2>1, PartOfRemote
<1>5. Cardinality(P) + Net(E) = x /\ \A S : Net(S) <= x
  <2>1. CASE N = {}
    <3>1. up = A \ P /\ down = {} /\ (P \cup A) \ N = P \cup up /\ up \cap E = up /\ P \cap up = {}
      BY <1>1, <2>1
    <3>2. \A S : down \cap S = {} /\ up \cap S \subseteq P \cup up
      BY <3>1
    <3>0. x = Cardinality(P \cup up)
      BY <3>1
    <3>3. IsFiniteSet(P) /\ IsFiniteSet(up) /\ IsFiniteSet(P \cup up)
      <4>1. P \in SUBSET Remote /\ up \in SUBSET Remote /\ P \cup up \in SUBSET Remote
        BY <1>1
      <4> QED
        BY <4>1, PartOfRemote
    <3> HIDE DEF up, down, x, Net, P, N, A
    <3>4. Cardinality(P \cup up) = Cardinality(P) + Cardinality(up) - Cardinality(P \cap up)
      BY <3>3, FS_Union
    <3>5. Cardinality({}) = 0
      BY FS_EmptySet
    <3>6. \A S : Cardinality(up \cap S) <= Cardinality(P \cup up)
      BY <3>2, <3>3, FS_Subset
    <3>7. Cardinality(up) \in Nat
      BY <3>3, FS_CardinalityType
    <3>8. x = Cardinality(P) + Cardinality(up)
      BY <1>4, <3>0, <3>1, <3>4, <3>5, <3>7
    <3>9. \A S : Net(S) = Cardinality(up \cap S)
      BY <1>3, <3>2, <3>5 DEF Net
    <3> QED
      BY <3>0, <3>1, <3>6, <3>8, <3>9
  <2>2. CASE N # {}
    <3>1. PICK e : e \in N
      BY <2>2
    <3>2. OneRemote
      BY <1>1, <3>1
    <3>3. Remote = {e} /\ N = {e} /\ e \in A /\ e \in E /\ e \in nulls
      BY <1>1, <3>1, <3>2 DEF OneRemote
    <3>4. up = {} /\ (P \cup A) \ N = {} /\ down = P
      BY <1>1, <3>3
    <3>5. Cardinality({}) = 0
      BY FS_EmptySet
    <3>6. P \cap E = P
      BY <1>1, <3>3
    <3>7. \A S : Net(S) = 0 - Cardinality(P \cap S)
      BY <3>4, <3>5
    <3>8. \A S : Cardinality(P \cap S) \in Nat
      BY <1>3, <3>4
    <3>9. x = 0
      BY <3>4, <3>5
    <3> HIDE DEF x, Net, P, up, down, N, A
    <3>10. Net(E) = 0 - Cardinality(P) /\ \A S : Net(S) <= 0
      <4>1. \A n \in Nat : 0 - n <= 0
        OBVIOUS
      <4>2. Net(E) = 0 - Cardinality(P)
        BY <3>6, <3>7, Zenon
      <4> QED
        BY <3>7, <3>8, <4>1, <4>2, Zenon
    <3> QED
      BY <1>4, <3>9, <3>10
  <2> QED
    BY <2>1, <2>2
<1> HIDE DEF up, down, x, A, N, P, Rest
<1>6. \A S : Net(S) \in Int
  <2>1. \A n, k \in Nat : n - k \in Int
    OBVIOUS
  <2> QED
    BY <1>3, <2>1, Zenon
<1> HIDE DEF Net
<1>7. x \in counts /\ \A y \in counts : y \in Int /\ y <= x
  BY <1>4, <1>5, <1>6
<1> HIDE DEF counts
<1>8. Max(counts) = x
  BY <1>4, <1>7, LargestOf
<1> QED
  BY <1>2, <1>8 DEF x, A, N, P

LEMMA StartFacts ==
  ASSUME ValueType, NEW w \in Validator, w.pendingRequest = Cardinality(w.pending),
         NEW E \in SUBSET Fields, NEW nulls, nulls = {} \/ OneRemote
  PROVE  LET s == startRequest(w, E, nulls)
             A == AskedOf(w, E)
         IN /\ s \in Validator
            /\ s.pending = (w.pending \cup A) \ Nulled(w, E, nulls)
            /\ s.pendingRequest = Cardinality(s.pending)
            /\ s.old = [e \in Remote |-> IF e \in A THEN value[e] ELSE w.old[e]]
            /\ s.errorList = w.errorList /\ s.submitted = w.submitted /\ s.toHide = w.toHide
            /\ s.valid = w.valid /\ s.formSubmitted = w.formSubmitted
            /\ s.cancelSubmit = w.cancelSubmit /\ s.toShow = w.toShow
            /\ s.shown = w.shown /\ s.highlighted = w.highlighted
<1> DEFINE A == AskedOf(w, E)
           s == startRequest(w, E, nulls)
           k == CountAfter(w, E, A \ w.pending, nulls)
           q == (w.pending \cup A) \ Nulled(w, E, nulls)
           o == [e \in Remote |-> IF e \in A THEN value[e] ELSE w.old[e]]
<1>1. s = [w EXCEPT !.pendingRequest = k, !.pending = q, !.old = o]
  BY DEF startRequest
<1>2. A \subseteq Remote /\ w.pending \subseteq Remote
  BY DEF AskedOf, Asks, Validator
<1>3. q \in SUBSET Remote
  BY <1>2
<1>4. k = Cardinality(q)
  BY <1>2, CountFacts
<1>5. k \in Nat
  BY <1>3, <1>4, PartOfRemote
<1>6. o \in [Remote -> {"", "taken", "good"}]
  BY DEF AskedOf, Asks, Validator
<1> HIDE DEF k, q, o, s, A
<1>7. /\ s \in Validator /\ s.pendingRequest = k /\ s.pending = q /\ s.old = o
      /\ s.errorList = w.errorList /\ s.submitted = w.submitted /\ s.toHide = w.toHide
      /\ s.valid = w.valid /\ s.formSubmitted = w.formSubmitted
      /\ s.cancelSubmit = w.cancelSubmit /\ s.toShow = w.toShow
      /\ s.shown = w.shown /\ s.highlighted = w.highlighted
  BY <1>1, <1>3, <1>5, <1>6 DEF Validator
<1> QED
  BY <1>4, <1>7 DEF q, o, s, A

\* Null answers refuse what waits and are errors; without one, nothing is done.
LEMMA NullFacts ==
  ASSUME ValueType, NEW w \in Validator, w.pendingRequest = Cardinality(w.pending),
         NEW u \in Validator, u.formSubmitted = w.formSubmitted,
         NEW E \in SUBSET Fields, NEW nulls, OneRemote, Nulled(w, E, nulls) # {},
         NEW pending
  PROVE  LET c == NullAnswers(w, u, E, nulls, pending)
         IN /\ c \in Validator /\ c.pendingRequest = u.pendingRequest /\ c.pending = u.pending
            /\ c.old = u.old /\ c.cancelSubmit = u.cancelSubmit
            /\ c.valid = [e \in Remote |-> u.valid[e] /\ e \notin Nulled(w, E, nulls)]
            /\ ~ c.formSubmitted /\ c.errorList # {}
<1>0. ASSUME NEW F \in SUBSET Fields
      PROVE  LET s == startRequest(w, F, nulls)
             IN /\ s \in Validator
                /\ s.pending = (w.pending \cup AskedOf(w, F)) \ Nulled(w, F, nulls)
                /\ s.pendingRequest = Cardinality(s.pending)
  BY StartFacts, ZenonT(60)
<1> DEFINE N == Nulled(w, E, nulls)
           UpTo(g) == {f \in E : f <= g}
           begun(g) == startRequest(w, UpTo(g), nulls)
           stays == {f \in pending : \A g \in N : f < g}
           waits == u.formSubmitted /\ \A g \in N : begun(g).pendingRequest > 0
           errors == {f \in u.errorList \cup N : \A g \in N : f >= g}
           shown == (u.shown \ (w.toHide \ stays)) \cup N \cup {Box}
           valid == [f \in Remote |-> u.valid[f] /\ f \notin N]
           c == [u EXCEPT !.valid = valid, !.formSubmitted = waits, !.errorList = errors,
                          !.shown = shown, !.toShow = @ \cup N \cup {Box},
                          !.toHide = @ \ (N \cup {Box})]
<1>1. NullAnswers(w, u, E, nulls, pending) = c
  BY DEF NullAnswers
<1> HIDE DEF N, waits, errors, shown, valid, c, UpTo, begun
<1>2. PICK e : e \in N
  BY DEF N
<1>3. N \subseteq Remote /\ N \subseteq E
  BY DEF N, Nulled, AskedOf, Asks
<1>4. N = {e} /\ Remote = {e} /\ e \in E /\ e \in Fields /\ e \in Nat
  BY <1>2, <1>3, ValidateAssumption DEF OneRemote
<1>5. begun(e).pendingRequest = 0
  <2>1. UpTo(e) \in SUBSET Fields /\ e \in UpTo(e)
    <3>1. e <= e
      BY <1>4
    <3> QED
      BY <1>4, <3>1, Zenon DEF UpTo
  <2>2. e \in Nulled(w, UpTo(e), nulls)
    BY <1>2, <2>1 DEF N, Nulled, AskedOf
  <2>3. /\ begun(e) \in Validator
        /\ begun(e).pending = (w.pending \cup AskedOf(w, UpTo(e))) \ Nulled(w, UpTo(e), nulls)
        /\ begun(e).pendingRequest = Cardinality(begun(e).pending)
    BY <1>0, <2>1 DEF begun
  <2>4. begun(e).pending \subseteq {e}
    BY <1>4, <2>3 DEF Validator
  <2>5. begun(e).pending = {}
    BY <2>2, <2>3, <2>4
  <2> QED
    BY <2>3, <2>5, FS_EmptySet
<1>6. waits = FALSE
  BY <1>4, <1>5 DEF waits
<1>7. errors \in SUBSET Fields /\ e \in errors
  <2>1. u.errorList \in SUBSET Fields
    BY DEF Validator
  <2> QED
    BY <1>4, <2>1 DEF errors
<1>8. shown \in SUBSET Labels /\ N \cup {Box} \in SUBSET Labels
  <2>1. u.shown \in SUBSET Labels
    BY DEF Validator
  <2>2. e \in Labels /\ Box \in Labels
    BY <1>4 DEF Labels
  <2> QED
    BY <1>4, <2>1, <2>2 DEF shown
<1>9. valid \in [Remote -> BOOLEAN]
  BY DEF valid, Validator
<1>10. /\ c \in Validator /\ c.pendingRequest = u.pendingRequest /\ c.pending = u.pending
       /\ c.old = u.old /\ c.cancelSubmit = u.cancelSubmit /\ c.valid = valid
       /\ c.formSubmitted = waits /\ c.errorList = errors
  BY <1>6, <1>7, <1>8, <1>9 DEF c, Validator
<1> QED
  BY <1>1, <1>6, <1>7, <1>10 DEF valid, N

LEMMA CheckFacts ==
  ASSUME ValueType, NEW w \in Validator, w.pendingRequest = Cardinality(w.pending),
         NEW E \in SUBSET Fields, NEW nulls, nulls = {} \/ OneRemote
  PROVE  LET c == Check(w, E, nulls)
             N == Nulled(w, E, nulls)
         IN /\ Checks(w, E, nulls, c)
            /\ N = {} =>
                 /\ c.errorList = w.errorList \cup ErrorsOf(w, E)
                 /\ c.toHide = w.toHide \ {e \in E : Verdict(w, e) = "pending"}
                 /\ c.toShow = w.toShow /\ c.shown = w.shown /\ c.highlighted = w.highlighted
            /\ N # {} => c.errorList # {}
<1> DEFINE s == startRequest(w, E, nulls)
           pending == {e \in E : Verdict(w, e) = "pending"}
           u == [s EXCEPT !.errorList = @ \cup ErrorsOf(w, E), !.submitted = @ \cup ErrorsOf(w, E),
                          !.toHide = @ \ pending]
           c == Check(w, E, nulls)
           A == AskedOf(w, E)
           N == Nulled(w, E, nulls)
           o == [e \in Remote |-> IF e \in A THEN value[e] ELSE w.old[e]]
<1>1. c = NullAnswers(w, u, E, nulls, pending)
  BY DEF Check, ErrorsOf
<1>2. /\ s \in Validator /\ s.pending = (w.pending \cup A) \ N
      /\ s.pendingRequest = Cardinality(s.pending) /\ s.old = o
      /\ s.errorList = w.errorList /\ s.submitted = w.submitted /\ s.toHide = w.toHide
      /\ s.valid = w.valid /\ s.formSubmitted = w.formSubmitted
      /\ s.cancelSubmit = w.cancelSubmit /\ s.toShow = w.toShow
      /\ s.shown = w.shown /\ s.highlighted = w.highlighted
  BY StartFacts
<1>3. ErrorsOf(w, E) \subseteq Fields
  BY DEF ErrorsOf
<1> HIDE DEF s, pending, A, o
<1>4. /\ u \in Validator /\ u.pending = s.pending /\ u.pendingRequest = s.pendingRequest
      /\ u.old = s.old /\ u.valid = s.valid /\ u.formSubmitted = s.formSubmitted
      /\ u.cancelSubmit = s.cancelSubmit /\ u.toShow = s.toShow
      /\ u.shown = s.shown /\ u.highlighted = s.highlighted
      /\ u.errorList = s.errorList \cup ErrorsOf(w, E) /\ u.toHide = s.toHide \ pending
  BY <1>2, <1>3 DEF Validator
<1> HIDE DEF u
<1>5. CASE N = {}
  <2>1. c = u
    BY <1>1, <1>5 DEF NullAnswers
  <2> HIDE DEF c
  <2>2. Checks(w, E, nulls, c)
    BY <1>2, <1>4, <1>5, <2>1 DEF Checks, A, o
  <2> QED
    BY <1>2, <1>4, <1>5, <2>1, <2>2 DEF pending, c
<1>6. CASE N # {}
  <2>1. OneRemote
    BY <1>6 DEF Nulled
  <2>2. /\ c \in Validator /\ c.pendingRequest = u.pendingRequest /\ c.pending = u.pending
        /\ c.old = u.old /\ c.cancelSubmit = u.cancelSubmit
        /\ c.valid = [e \in Remote |-> u.valid[e] /\ e \notin N]
        /\ ~ c.formSubmitted /\ c.errorList # {}
    BY <1>1, <1>2, <1>4, <1>6, <2>1, NullFacts
  <2> HIDE DEF c
  <2>3. Checks(w, E, nulls, c)
    BY <1>2, <1>4, <1>6, <2>2 DEF Checks, A, o
  <2> QED
    BY <1>6, <2>2, <2>3 DEF c
<1> QED
  BY <1>5, <1>6

\* A check of a state that differs in what is shown is the same.
LEMMA ChecksOfSame ==
  ASSUME NEW w, NEW p, SameAsked(w, p), NEW E, NEW nulls, NEW u, NEW x, x \in Validator,
         Checks(p, E, nulls, u), SameAsked(u, x)
  PROVE  Checks(w, E, nulls, x)
<1>1. AskedOf(p, E) = AskedOf(w, E) /\ Nulled(p, E, nulls) = Nulled(w, E, nulls)
  BY DEF SameAsked, Nulled, AskedOf, Asks
<1>2. /\ p.pending = w.pending /\ p.old = w.old /\ p.valid = w.valid
      /\ p.formSubmitted = w.formSubmitted /\ p.cancelSubmit = w.cancelSubmit
      /\ x.pendingRequest = u.pendingRequest /\ x.pending = u.pending
      /\ x.old = u.old /\ x.valid = u.valid
      /\ x.formSubmitted = u.formSubmitted /\ x.cancelSubmit = u.cancelSubmit
  BY DEF SameAsked
<1> QED
  BY <1>1, <1>2 DEF Checks

LEMMA FormFacts ==
  ASSUME ValueType, NEW w \in Validator, w.pendingRequest = Cardinality(w.pending),
         NEW nulls, nulls = {} \/ OneRemote
  PROVE  LET u == Form(w, nulls)
             N == Nulled(w, Fields, nulls)
         IN /\ Checks(w, Fields, nulls, u)
            /\ N = {} => u.errorList = ErrorsOf(w, Fields)
            /\ N # {} => u.errorList # {}
            /\ u.errorList \subseteq u.shown /\ u.toHide \cap u.toShow = {}
<1> DEFINE p == Prepare(w, Fields \cup {Box})
           c == Check(p, Fields, nulls)
           N == Nulled(w, Fields, nulls)
           map == {e \in Fields : Verdict(w, e) = "error"} \cup N
           d == [c EXCEPT !.currentElements = Fields, !.invalid = map, !.submitted = @ \cup map]
<1>1. p \in Validator /\ SameAsked(w, p) /\ p.errorList = {}
  BY PrepareFacts DEF Labels
<1>2. Nulled(p, Fields, nulls) = N /\ ErrorsOf(p, Fields) = ErrorsOf(w, Fields)
  <2> HIDE DEF p
  <2> QED
    BY <1>1 DEF Nulled, AskedOf, ErrorsOf, Asks, Verdict, SameAsked
<1>3. Form(w, nulls) = ShowErrors(d)
  BY DEF Form
<1>4. map \in SUBSET Fields
  BY DEF Nulled, AskedOf
<1> HIDE DEF p, map, N
<1>5. /\ Checks(p, Fields, nulls, c)
      /\ N = {} => c.errorList = ErrorsOf(w, Fields)
      /\ N # {} => c.errorList # {}
  <2>1. p.pendingRequest = Cardinality(p.pending)
    BY <1>1 DEF SameAsked
  <2> HIDE DEF c
  <2>0. Fields \in SUBSET Fields
    OBVIOUS
  <2>2. /\ Checks(p, Fields, nulls, c)
        /\ Nulled(p, Fields, nulls) = {} => c.errorList = p.errorList \cup ErrorsOf(p, Fields)
        /\ Nulled(p, Fields, nulls) # {} => c.errorList # {}
    BY <1>1, <2>0, <2>1, CheckFacts DEF c
  <2> QED
    BY <1>1, <1>2, <2>2
<1>6. c \in Validator
  BY <1>5 DEF Checks
<1> HIDE DEF c
<1>7. d \in Validator /\ SameAsked(c, d) /\ d.errorList = c.errorList
  BY <1>4, <1>6 DEF Validator, SameAsked
<1> HIDE DEF d
<1>8. LET u == Form(w, nulls)
      IN /\ u \in Validator /\ SameAsked(d, u) /\ u.errorList = d.errorList
         /\ u.errorList \subseteq u.shown /\ u.toHide \cap u.toShow = {}
  BY <1>3, <1>7, ShowErrorsFacts
<1>9. SameAsked(c, Form(w, nulls))
  BY <1>7, <1>8 DEF SameAsked
<1>10. Checks(w, Fields, nulls, Form(w, nulls))
  BY <1>1, <1>5, <1>8, <1>9, ChecksOfSame
<1> QED
  BY <1>5, <1>7, <1>8, <1>10 DEF N

LEMMA ElementFacts ==
  ASSUME ValueType, NEW w \in Validator, w.pendingRequest = Cardinality(w.pending),
         NEW f \in Fields, NEW nulls, nulls = {} \/ OneRemote
  PROVE  LET u == Element(w, f, nulls)
         IN Checks(w, {f}, nulls, u) /\ u.toHide \cap u.toShow = {}
<1> DEFINE l == [w EXCEPT !.lastElement = {f}]
           p == Prepare(l, {f})
           k == Check(p, {f}, nulls)
           c == [k EXCEPT !.currentElements = {f}]
           invalid == IF Verdict(w, f) = "valid" THEN c.invalid \ {f} ELSE c.invalid \cup {f}
           d == [c EXCEPT !.invalid = invalid,
                          !.toHide = IF invalid = {} THEN @ \cup {Box} ELSE @]
<1>1. l \in Validator /\ SameAsked(w, l)
  BY DEF Validator, SameAsked
<1>2. Element(w, f, nulls) = ShowErrors(d)
  BY DEF Element
<1> HIDE DEF l
<1>3. p \in Validator /\ SameAsked(l, p)
  BY <1>1, PrepareFacts DEF Labels
<1> HIDE DEF p
<1>4. SameAsked(w, p) /\ p.pendingRequest = Cardinality(p.pending)
  BY <1>1, <1>3 DEF SameAsked
<1>5. Checks(p, {f}, nulls, k)
  <2>1. {f} \in SUBSET Fields
    OBVIOUS
  <2> QED
    BY <1>3, <1>4, <2>1, CheckFacts
<1>6. k \in Validator
  BY <1>5 DEF Checks
<1> HIDE DEF k
<1>7. c \in Validator /\ SameAsked(k, c)
  BY <1>6 DEF Validator, SameAsked
<1> HIDE DEF c
<1>8. invalid \in SUBSET Fields /\ (IF invalid = {} THEN c.toHide \cup {Box} ELSE c.toHide) \in SUBSET Labels
  BY <1>7 DEF Validator, Labels
<1> HIDE DEF invalid
<1>9. d \in Validator /\ SameAsked(c, d)
  BY <1>7, <1>8 DEF Validator, SameAsked
<1> HIDE DEF d
<1>10. LET u == Element(w, f, nulls)
       IN u \in Validator /\ SameAsked(d, u) /\ u.toHide \cap u.toShow = {}
  BY <1>2, <1>9, ShowErrorsFacts
<1>11. SameAsked(k, Element(w, f, nulls))
  BY <1>7, <1>9, <1>10 DEF SameAsked
<1> QED
  BY <1>4, <1>5, <1>10, <1>11, ChecksOfSame

--------------------------------------------------------------------------------
(* The questions that are open.                                                        *)

\* The requests of the fields that are pending, and of all that were ever asked: each is about
\* the value asked for last.
Open(w) == {<<e, w.old[e]>> : e \in w.pending}
LastAsked(w) == {<<e, w.old[e]>> : e \in {f \in Remote : w.old[f] # ""}}

\* The fields that are pending are counted, and what is valid and not pending was answered so.
Asking(w) ==
  /\ w \in Validator /\ ~ w.cancelSubmit
  /\ w.pendingRequest = Cardinality(w.pending)
  /\ \A e \in w.pending : w.old[e] # ""
  /\ \A e \in Remote \ w.pending : w.old[e] # "" => (w.valid[e] => w.old[e] = "good")

\* The requests that are open, of a state of the validator: the last ones of their fields; all
\* of those that are pending if none fails, and no others if an aborted request is silent.
Account(reqs, w) ==
  /\ reqs \subseteq LastAsked(w)
  /\ ~ Fails => Open(w) \subseteq reqs
  /\ TRUE \notin AbortAnswers => reqs \subseteq Open(w)

LEMMA FormChecks ==
  ASSUME ValueType, NEW w, Asking(w), NEW nulls, Quiet(nulls)
  PROVE  Checks(w, Fields, nulls, Form(w, nulls))
BY FormFacts DEF Asking, Quiet

LEMMA ElementChecks ==
  ASSUME ValueType, NEW w, Asking(w), NEW f \in Fields, NEW nulls, Quiet(nulls)
  PROVE  Checks(w, {f}, nulls, Element(w, f, nulls))
BY ElementFacts DEF Asking, Quiet

\* A check keeps the account of what is open.
LEMMA ChecksKeepAsking ==
  ASSUME ValueType, NEW w, NEW u, NEW E \in SUBSET Fields, NEW nulls, Quiet(nulls),
         Asking(w), Checks(w, E, nulls, u)
  PROVE  /\ Asking(u)
         /\ \A reqs : Account(reqs, w) => Account(Asked(w, E, reqs), u)
<1> DEFINE A == AskedOf(w, E)
           N == Nulled(w, E, nulls)
<1>1. w \in Validator /\ u \in Validator /\ w.pending \subseteq Remote /\ w.old \in [Remote -> {"", "taken", "good"}]
  BY DEF Asking, Checks, Validator
<1>2. /\ A \subseteq Remote /\ N \subseteq A
      /\ \A e \in A : e \in E /\ value[e] \in {"taken", "good"} /\ w.old[e] # value[e]
  BY DEF AskedOf, Asks, Nulled
<1>3. /\ u.pendingRequest = Cardinality(u.pending) /\ u.pending = (w.pending \cup A) \ N
      /\ u.old = [e \in Remote |-> IF e \in A THEN value[e] ELSE w.old[e]]
      /\ u.cancelSubmit = w.cancelSubmit
      /\ N = {} => u.valid = w.valid
      /\ N # {} => u.valid = [e \in Remote |-> w.valid[e] /\ e \notin N]
  BY DEF Checks
<1>4. \A reqs : Asked(w, E, reqs) = {r \in reqs : r[1] \notin A} \cup {<<e, value[e]>> : e \in A}
  BY DEF Asked
<1>5. TRUE \notin AbortAnswers => N = {}
  BY DEF Quiet, Nulled
<1> HIDE DEF A, N
<1>6. \A e \in Remote : u.old[e] = IF e \in A THEN value[e] ELSE w.old[e]
  BY <1>3
<1>7. \A e \in Remote : u.valid[e] => w.valid[e] /\ e \notin N
  BY <1>3
<1>8. Asking(u)
  <2>1. \A e \in u.pending : u.old[e] # ""
    BY <1>1, <1>2, <1>3, <1>6 DEF Asking
  <2>2. \A e \in Remote \ u.pending : u.old[e] # "" => (u.valid[e] => u.old[e] = "good")
    BY <1>3, <1>6, <1>7 DEF Asking
  <2>3. ~ u.cancelSubmit
    BY <1>3 DEF Asking
  <2> QED
    BY <1>1, <1>3, <2>1, <2>2, <2>3 DEF Asking
<1>9. ASSUME NEW reqs, Account(reqs, w) PROVE Account(Asked(w, E, reqs), u)
  <2>1. ASSUME NEW r \in reqs, r[1] \notin A PROVE r \in LastAsked(u) /\ (r \in Open(w) /\ N = {} => r \in Open(u))
    <3>1. r \in LastAsked(w)
      BY <1>9, <2>1 DEF Account
    <3>2. PICK e \in Remote : w.old[e] # "" /\ r = <<e, w.old[e]>>
      BY <3>1 DEF LastAsked
    <3>3. e \notin A /\ u.old[e] = w.old[e]
      BY <1>6, <2>1, <3>2
    <3>4. r \in LastAsked(u)
      BY <3>2, <3>3 DEF LastAsked
    <3>5. r \in Open(w) => e \in w.pending
      BY <3>2 DEF Open
    <3>6. r \in Open(w) /\ N = {} => e \in u.pending
      BY <1>3, <3>5
    <3> QED
      BY <3>2, <3>3, <3>4, <3>6 DEF Open
  <2>2. ASSUME NEW e \in A PROVE <<e, value[e]>> \in LastAsked(u) /\ (N = {} => <<e, value[e]>> \in Open(u))
    <3>1. e \in Remote /\ u.old[e] = value[e] /\ u.old[e] # ""
      BY <1>2, <1>6, <2>2
    <3>2. N = {} => e \in u.pending
      BY <1>3, <2>2
    <3> QED
      BY <3>1, <3>2 DEF LastAsked, Open
  <2>3. ASSUME ~ Fails, NEW e \in u.pending PROVE <<e, u.old[e]>> \in Asked(w, E, reqs)
    <3>1. CASE e \in A
      BY <1>2, <1>4, <1>6, <3>1
    <3>2. CASE e \notin A
      <4>1. e \in w.pending /\ u.old[e] = w.old[e]
        BY <1>1, <1>3, <1>6, <2>3, <3>2
      <4>2. <<e, w.old[e]>> \in reqs
        BY <1>9, <2>3, <4>1 DEF Account, Open
      <4>3. <<e, w.old[e]>>[1] = e
        OBVIOUS
      <4> QED
        BY <1>4, <3>2, <4>1, <4>2, <4>3
    <3> QED
      BY <3>1, <3>2
  <2>4. Asked(w, E, reqs) \subseteq LastAsked(u)
    BY <1>4, <2>1, <2>2
  <2>5. ~ Fails => Open(u) \subseteq Asked(w, E, reqs)
    BY <2>3 DEF Open
  <2>6. TRUE \notin AbortAnswers => Asked(w, E, reqs) \subseteq Open(u)
    BY <1>4, <1>5, <1>9, <2>1, <2>2 DEF Account
  <2> QED
    BY <2>4, <2>5, <2>6 DEF Account
<1> QED
  BY <1>8, <1>9

\* After a check of the form the next one asks nothing.
LEMMA FormAsksAll ==
  ASSUME ValueType, NEW w \in Validator, NEW nulls, NEW u, Checks(w, Fields, nulls, u)
  PROVE  \A e \in Fields : ~ Asks(u, e)
<1> TAKE e \in Fields
<1>1. e \in Remote => u.old[e] = IF e \in AskedOf(w, Fields) THEN value[e] ELSE w.old[e]
  BY DEF Checks
<1> QED
  BY <1>1 DEF Asks, AskedOf

\* A check that asks nothing leaves what is open as it is.
LEMMA AsksNothing ==
  ASSUME NEW w, Asking(w), NEW u, NEW E \in SUBSET Fields, NEW nulls, Checks(w, E, nulls, u),
         \A e \in Fields : ~ Asks(w, e)
  PROVE  SameAsked(w, u) /\ Nulled(w, E, nulls) = {} /\ \A reqs : Asked(w, E, reqs) = reqs
<1>1. AskedOf(w, E) = {} /\ Nulled(w, E, nulls) = {}
  BY DEF AskedOf, Nulled
<1>2. w.old \in [Remote -> {"", "taken", "good"}]
  BY DEF Asking, Validator
<1>3. u.old = w.old
  BY <1>1, <1>2 DEF Checks
<1>4. \A reqs : Asked(w, E, reqs) = reqs
  BY <1>1 DEF Asked
<1>5. /\ u.pendingRequest = Cardinality(u.pending)
      /\ u.pending = (w.pending \cup AskedOf(w, E)) \ Nulled(w, E, nulls)
      /\ u.valid = w.valid /\ u.formSubmitted = w.formSubmitted
      /\ u.cancelSubmit = w.cancelSubmit
  BY <1>1 DEF Checks
<1>6. u.pending = w.pending
  BY <1>1, <1>5
<1>7. u.pendingRequest = w.pendingRequest
  BY <1>5, <1>6 DEF Asking
<1> QED
  BY <1>1, <1>3, <1>4, <1>5, <1>6, <1>7 DEF SameAsked

\* There is one request for each field that is pending.
LEMMA CountOpen ==
  ASSUME NEW w \in Validator
  PROVE  Cardinality(Open(w)) = Cardinality(w.pending) /\ w.pending = {r[1] : r \in Open(w)}
<1> DEFINE f == [e \in w.pending |-> <<e, w.old[e]>>]
<1>1. IsFiniteSet(w.pending)
  BY PartOfRemote DEF Validator
<1>2. f \in [w.pending -> Open(w)] /\ \A r \in Open(w) : \E e \in w.pending : f[e] = r
  BY DEF Open
<1>3. \A a, b \in w.pending : f[a] = f[b] => a = b
  OBVIOUS
<1>4. f \in Bijection(w.pending, Open(w))
  <2> HIDE DEF f
  <2> QED
    BY <1>2, <1>3 DEF Bijection, Injection, Surjection, IsInjective
<1>5. ExistsBijection(w.pending, Open(w))
  BY <1>4 DEF ExistsBijection
<1>6. w.pending = {r[1] : r \in Open(w)}
  <2>1. \A e \in w.pending : <<e, w.old[e]>>[1] = e /\ <<e, w.old[e]>> \in Open(w)
    BY DEF Open
  <2>2. \A r \in Open(w) : r[1] \in w.pending
    BY DEF Open
  <2> QED
    BY <2>1, <2>2
<1> QED
  BY <1>1, <1>5, <1>6, FS_Bijection

\* An answer closes its question and keeps the account; one that refuses the value is shown.
LEMMA AnsweredFacts ==
  ASSUME NEW w, Asking(w), NEW e \in Remote, e \in w.pending \/ OneRemote,
         NEW ok, ok <=> w.old[e] = "good", ok \in BOOLEAN
  PROVE  LET u == Answered(w, e, ok)
         IN /\ u \in Validator /\ Asking(u) /\ u.toHide \cap u.toShow = {}
            /\ u.pending = w.pending \ {e} /\ u.old = w.old /\ u.formSubmitted = w.formSubmitted
            /\ u.valid = [w.valid EXCEPT ![e] = ok]
            /\ \A reqs : Account(reqs, w) => Account(reqs \ {<<e, w.old[e]>>}, u)
            /\ ~ ok => e \in u.shown
<1> DEFINE g == [w EXCEPT !.errorList = {e}]
           x == IF ok THEN ShowErrors(Prepare(w, {e})) ELSE ShowErrors(g)
           k == IF x.pendingRequest = 0 THEN 0 ELSE x.pendingRequest - 1
           u == [x EXCEPT !.valid[e] = ok, !.pendingRequest = k, !.pending = @ \ {e}]
<1>1. w \in Validator /\ e \in Fields
  BY ValidateAssumption DEF Asking, Validator
<1>2. x \in Validator /\ SameAsked(w, x) /\ x.toHide \cap x.toShow = {} /\ (~ ok => e \in x.shown)
  <2>1. CASE ok
    <3> DEFINE p == Prepare(w, {e})
    <3>1. {e} \in SUBSET Labels
      BY <1>1 DEF Labels
    <3>2. p \in Validator /\ SameAsked(w, p)
      BY <1>1, <3>1, PrepareFacts
    <3> HIDE DEF p
    <3>3. LET y == ShowErrors(p)
          IN y \in Validator /\ SameAsked(p, y) /\ y.toHide \cap y.toShow = {}
      BY <3>2, ShowErrorsFacts
    <3> QED
      BY <2>1, <3>2, <3>3 DEF SameAsked, p
  <2>2. CASE ~ ok
    <3>1. g \in Validator /\ SameAsked(w, g) /\ g.errorList = {e}
      BY <1>1 DEF Validator, SameAsked
    <3> HIDE DEF g
    <3>2. LET y == ShowErrors(g)
          IN y \in Validator /\ SameAsked(g, y) /\ e \in y.shown /\ y.toHide \cap y.toShow = {}
      BY <3>1, ShowErrorsFacts
    <3> QED
      BY <2>2, <3>1, <3>2 DEF SameAsked
  <2> QED
    BY <2>1, <2>2
<1>3. Answered(w, e, ok) = u
  BY DEF Answered
<1> HIDE DEF x
<1>4. k \in Nat
  <2>1. x.pendingRequest \in Nat
    BY <1>2 DEF Validator
  <2> QED
    BY <2>1
<1>5. [x.valid EXCEPT ![e] = ok] \in [Remote -> BOOLEAN]
  BY <1>2 DEF Validator
<1> HIDE DEF k
<1>6. /\ u \in Validator /\ u.pendingRequest = k /\ u.pending = x.pending \ {e}
      /\ u.valid = [x.valid EXCEPT ![e] = ok] /\ u.old = x.old
      /\ u.formSubmitted = x.formSubmitted /\ u.cancelSubmit = x.cancelSubmit
      /\ u.shown = x.shown /\ u.toHide = x.toHide /\ u.toShow = x.toShow
  BY <1>2, <1>4, <1>5 DEF Validator
<1> HIDE DEF u
<1>7. /\ u.pending = w.pending \ {e} /\ u.old = w.old /\ u.valid = [w.valid EXCEPT ![e] = ok]
      /\ u.formSubmitted = w.formSubmitted /\ u.cancelSubmit = w.cancelSubmit
  BY <1>2, <1>6 DEF SameAsked
<1>8. u.pendingRequest = Cardinality(u.pending)
  <2>1. IsFiniteSet(w.pending) /\ Cardinality(w.pending) \in Nat
    BY <1>1, PartOfRemote DEF Validator
  <2>2. x.pendingRequest = Cardinality(w.pending)
    BY <1>2 DEF SameAsked, Asking
  <2>3. CASE e \in w.pending
    <3>1. IsFiniteSet(u.pending) /\ Cardinality(u.pending) = Cardinality(w.pending) - 1
      BY <1>7, <2>1, <2>3, FS_RemoveElement, ZenonT(60)
    <3>2. Cardinality(u.pending) \in Nat
      BY <3>1, FS_CardinalityType
    <3> QED
      BY <1>6, <2>1, <2>2, <3>1, <3>2 DEF k
  <2>4. CASE e \notin w.pending
    <3>1. w.pending = {}
      BY <1>1, <2>4 DEF OneRemote, Validator
    <3>2. u.pending = {} /\ Cardinality({}) = 0
      BY <1>7, <3>1, FS_EmptySet
    <3>3. x.pendingRequest = 0
      BY <2>2, <3>1, <3>2
    <3> QED
      BY <1>6, <3>2, <3>3 DEF k
  <2> QED
    BY <2>3, <2>4
<1>9. Asking(u)
  <2>1. \A f \in Remote \ u.pending : u.old[f] # "" => (u.valid[f] => u.old[f] = "good")
    <3> TAKE f \in Remote \ u.pending
    <3>1. CASE f = e
      BY <1>1, <1>7, <3>1 DEF Asking, Validator
    <3>2. CASE f # e
      BY <1>1, <1>7, <3>2, ZenonT(60) DEF Asking, Validator
    <3> QED
      BY <3>1, <3>2
  <2>2. ~ u.cancelSubmit /\ \A f \in u.pending : u.old[f] # ""
    BY <1>7 DEF Asking
  <2> QED
    BY <1>6, <1>8, <2>1, <2>2, Zenon DEF Asking
<1>10. Open(u) = Open(w) \ {<<e, w.old[e]>>} /\ LastAsked(u) = LastAsked(w)
  BY <1>7 DEF Open, LastAsked
<1>11. \A reqs : Account(reqs, w) => Account(reqs \ {<<e, w.old[e]>>}, u)
  BY <1>10 DEF Account
<1> QED
  BY <1>2, <1>3, <1>6, <1>7, <1>9, <1>11

\* A form without errors and questions has in it what passes the rules.
LEMMA Passed ==
  ASSUME ValueType, NEW w, Asking(w), NEW nulls, Quiet(nulls),
         Form(w, nulls).errorList = {}, Form(w, nulls).pendingRequest = 0
  PROVE  \A e \in Fields : Acceptable(e)
<1> DEFINE u == Form(w, nulls)
<1>1. /\ Checks(w, Fields, nulls, u) /\ Nulled(w, Fields, nulls) = {}
      /\ u.errorList = ErrorsOf(w, Fields)
  BY FormFacts DEF Asking, Quiet
<1>2. Asking(u)
  BY <1>1, ChecksKeepAsking
<1>3. u.pending = {}
  <2>1. IsFiniteSet(u.pending)
    BY <1>2, PartOfRemote DEF Asking, Validator
  <2>2. Cardinality(u.pending) = 0
    BY <1>2 DEF Asking
  <2> QED
    BY <2>1, <2>2, FS_EmptySet
<1> HIDE DEF u
<1>4. w.pending = {} /\ AskedOf(w, Fields) = {}
  BY <1>1, <1>3 DEF Checks
<1> TAKE e \in Fields
<1>5. Verdict(w, e) # "error" /\ ~ Asks(w, e)
  BY <1>1, <1>4 DEF ErrorsOf, AskedOf, u
<1>6. value[e] \in FieldValues
  BY DEF ValueType
<1>7. CASE value[e] \in {"taken", "good"} /\ e \in Remote
  <2>1. w.old[e] = value[e] /\ e \notin w.pending
    BY <1>4, <1>5, <1>7 DEF Asks
  <2>2. w.valid[e] => w.old[e] = "good"
    BY <1>7, <2>1 DEF Asking
  <2>3. w.valid[e]
    BY <1>4, <1>5, <1>7 DEF Verdict
  <2> QED
    BY <1>7, <2>1, <2>2, <2>3 DEF Acceptable
<1>8. CASE ~ (value[e] \in {"taken", "good"} /\ e \in Remote)
  <2>1. value[e] = "" => e \notin Required
    <3> SUFFICES ASSUME value[e] = "", e \in Required PROVE FALSE
      OBVIOUS
    <3>1. Verdict(w, e) = "error"
      BY DEF Verdict
    <3> QED
      BY <1>5, <3>1
  <2>2. value[e] # "malformed"
    <3> SUFFICES ASSUME value[e] = "malformed" PROVE FALSE
      OBVIOUS
    <3>1. Verdict(w, e) = "error"
      BY DEF Verdict
    <3> QED
      BY <1>5, <3>1
  <2>3. value[e] \in {"", "taken", "good"}
    BY <1>6, <2>2 DEF FieldValues
  <2> QED
    BY <1>8, <2>1, <2>2, <2>3 DEF Acceptable
<1> QED
  BY <1>7, <1>8

--------------------------------------------------------------------------------
(* Submissions and answers.                                                            *)

\* What is marked and labelled, and whether a submission waits, is not asked of the server.
LEMMA SettingKeepsAsking ==
  ASSUME NEW w, Asking(w), NEW b \in BOOLEAN
  PROVE  LET u == [w EXCEPT !.formSubmitted = b]
         IN /\ Asking(u) /\ u.formSubmitted = b /\ u.pendingRequest = w.pendingRequest
            /\ \A reqs : Account(reqs, w) => Account(reqs, u)
            /\ u.toHide = w.toHide /\ u.toShow = w.toShow /\ u.shown = w.shown
            /\ \A e : Asks(u, e) = Asks(w, e)
<1> DEFINE u == [w EXCEPT !.formSubmitted = b]
<1>1. /\ u \in Validator /\ u.formSubmitted = b
      /\ u.pendingRequest = w.pendingRequest /\ u.pending = w.pending
      /\ u.old = w.old /\ u.valid = w.valid /\ u.cancelSubmit = w.cancelSubmit
      /\ u.toHide = w.toHide /\ u.toShow = w.toShow /\ u.shown = w.shown
  BY DEF Asking, Validator
<1> HIDE DEF u
<1>2. Asking(u)
  BY <1>1 DEF Asking
<1>3. Open(u) = Open(w) /\ LastAsked(u) = LastAsked(w) /\ \A e : Asks(u, e) = Asks(w, e)
  BY <1>1 DEF Open, LastAsked, Asks
<1>4. \A reqs : Account(reqs, w) => Account(reqs, u)
  BY <1>3 DEF Account
<1> QED
  BY <1>1, <1>2, <1>3, <1>4 DEF u

\* What the listener of "submit" does without the button of class "cancel".
LEMMA SubmitFormFacts ==
  ASSUME ValueType, NEW w, Asking(w), NEW nulls, Quiet(nulls)
  PROVE  LET u == SubmitForm(w, nulls)
             f == Form(w, nulls)
         IN /\ Asking(u) /\ u.toHide \cap u.toShow = {} /\ \A e \in Fields : ~ Asks(u, e)
            /\ \A reqs : Account(reqs, w) => Account(Asked(w, Fields, reqs), u)
            /\ u.formSubmitted => w.formSubmitted \/ (f.errorList = {} /\ f.pendingRequest # 0)
            /\ f.errorList = {} /\ f.pendingRequest # 0 => u.formSubmitted /\ u.pendingRequest # 0
            /\ Sends(w, nulls) <=> f.errorList = {} /\ f.pendingRequest = 0
            /\ Sends(w, nulls) => \A e \in Fields : Acceptable(e)
<1> DEFINE f == Form(w, nulls)
           g == [f EXCEPT !.formSubmitted = TRUE]
<1>1. w \in Validator /\ ~ w.cancelSubmit
  BY DEF Asking
<1>2. Checks(w, Fields, nulls, f) /\ f.toHide \cap f.toShow = {}
  BY FormFacts DEF Asking, Quiet
<1>3. f.pendingRequest \in Nat
  BY <1>2 DEF Checks, Validator
<1>4. /\ Asking(f) /\ \A reqs : Account(reqs, w) => Account(Asked(w, Fields, reqs), f)
      /\ \A e \in Fields : ~ Asks(f, e)
  BY <1>1, <1>2, ChecksKeepAsking, FormAsksAll
<1>5. f.formSubmitted => w.formSubmitted
  BY <1>2 DEF Checks
<1>6. SubmitForm(w, nulls) = IF f.errorList = {} /\ f.pendingRequest > 0 THEN g ELSE f
  BY <1>1 DEF SubmitForm
<1>7. Sends(w, nulls) <=> f.errorList = {} /\ f.pendingRequest = 0
  BY <1>1 DEF Sends
<1>8. Sends(w, nulls) => \A e \in Fields : Acceptable(e)
  BY <1>7, Passed
<1> HIDE DEF f
<1>9. /\ Asking(g) /\ g.formSubmitted = TRUE /\ g.pendingRequest = f.pendingRequest
      /\ \A reqs : Account(reqs, f) => Account(reqs, g)
      /\ g.toHide \cap g.toShow = {} /\ \A e \in Fields : ~ Asks(g, e)
  BY <1>2, <1>4, SettingKeepsAsking
<1> HIDE DEF g
<1>10. CASE f.errorList = {} /\ f.pendingRequest # 0
  <2>1. SubmitForm(w, nulls) = g
    BY <1>3, <1>6, <1>10
  <2> QED
    BY <1>4, <1>7, <1>8, <1>9, <1>10, <2>1 DEF f
<1>11. CASE ~ (f.errorList = {} /\ f.pendingRequest # 0)
  <2>1. SubmitForm(w, nulls) = f
    BY <1>3, <1>6, <1>11
  <2> QED
    BY <1>2, <1>4, <1>5, <1>7, <1>8, <1>11, <2>1 DEF f
<1> QED
  BY <1>10, <1>11

\* stopRequest: nothing, the end of a submission that is refused, a form with errors, or the
\* submission.
LEMMA StopRequestFacts ==
  ASSUME ValueType, NEW w, Asking(w), w.toHide \cap w.toShow = {}, NEW ok \in BOOLEAN,
         NEW nulls, Quiet(nulls)
  PROVE  LET s == stopRequest(w, ok, nulls)
             f == Form(w, nulls)
             tried == ok /\ w.pendingRequest = 0 /\ w.formSubmitted
         IN /\ Asking(s.w) /\ s.w.toHide \cap s.w.toShow = {}
            /\ tried => \A reqs : Account(reqs, w) => Account(Asked(w, Fields, reqs), s.w)
            /\ ~ tried => \A reqs : Account(reqs, w) => Account(reqs, s.w)
            /\ s.sent => tried /\ f.errorList = {} /\ \A e \in Fields : Acceptable(e)
            /\ ~ (w.pendingRequest = 0 /\ w.formSubmitted) => s.w = w
            /\ w.pendingRequest = 0 /\ w.formSubmitted /\ ~ ok =>
                 ~ s.w.formSubmitted /\ s.w.shown = w.shown
            /\ tried /\ f.errorList # {} => \E e \in Fields : e \in s.w.shown
            /\ tried /\ f.errorList = {} => ~ s.w.formSubmitted
            /\ (\A e \in Fields : ~ Asks(w, e)) =>
                 /\ \A e \in Fields : ~ Asks(s.w, e)
                 /\ tried /\ f.errorList = {} => s.sent
<1> DEFINE s == stopRequest(w, ok, nulls)
           f == Form(w, nulls)
           g == SubmitForm(f, nulls)
           h == [g EXCEPT !.formSubmitted = FALSE]
           tried == ok /\ w.pendingRequest = 0 /\ w.formSubmitted
<1>1. w \in Validator /\ ~ w.cancelSubmit
  BY DEF Asking
<1>2. CASE ~ (w.pendingRequest = 0 /\ w.formSubmitted)
  <2>1. s = [w |-> w, sent |-> FALSE]
    BY <1>2 DEF stopRequest
  <2>2. s.w = w /\ s.sent = FALSE /\ ~ tried
    BY <1>2, <2>1
  <2> HIDE DEF s
  <2> QED
    BY <1>2, <2>2 DEF s
<1>3. CASE w.pendingRequest = 0 /\ w.formSubmitted /\ ~ ok
  <2> DEFINE x == [w EXCEPT !.formSubmitted = FALSE]
  <2>1. s = [w |-> x, sent |-> FALSE]
    BY <1>3 DEF stopRequest
  <2>2. s.w = x /\ s.sent = FALSE /\ ~ tried
    BY <1>3, <2>1
  <2>3. /\ Asking(x) /\ ~ x.formSubmitted /\ x.shown = w.shown
        /\ \A reqs : Account(reqs, w) => Account(reqs, x)
        /\ x.toHide \cap x.toShow = {} /\ \A e : Asks(x, e) = Asks(w, e)
    BY SettingKeepsAsking
  <2> HIDE DEF s, x
  <2> QED
    BY <1>3, <2>2, <2>3 DEF s
<1>4. CASE tried
  <2>1. /\ Checks(w, Fields, nulls, f) /\ f.toHide \cap f.toShow = {}
        /\ f.errorList \subseteq f.shown
        /\ f.errorList = {} => Nulled(w, Fields, nulls) = {} /\ f.errorList = ErrorsOf(w, Fields)
    BY FormFacts DEF Asking, Quiet
  <2>2. f.errorList \subseteq Fields
    BY <2>1 DEF Checks, Validator
  <2>3. /\ Asking(f) /\ \A reqs : Account(reqs, w) => Account(Asked(w, Fields, reqs), f)
        /\ \A e \in Fields : ~ Asks(f, e)
    BY <1>1, <2>1, ChecksKeepAsking, FormAsksAll
  <2>4. CASE f.errorList # {}
    <3>1. s = [w |-> f, sent |-> FALSE]
      BY <1>4, <2>4 DEF stopRequest, Resubmit
    <3>2. s.w = f /\ s.sent = FALSE
      BY <3>1
    <3> HIDE DEF s
    <3> QED
      BY <1>4, <2>1, <2>2, <2>3, <2>4, <3>2 DEF s
  <2>5. CASE f.errorList = {}
    <3>1. s = [w |-> h, sent |-> Sends(f, nulls)]
      BY <1>4, <2>5 DEF stopRequest, Resubmit
    <3>2. s.w = h /\ s.sent = Sends(f, nulls)
      BY <3>1
    <3>3. Checks(f, Fields, nulls, Form(f, nulls))
      BY <2>3, FormChecks
    <3>4. /\ SameAsked(f, Form(f, nulls)) /\ Nulled(f, Fields, nulls) = {}
          /\ \A reqs : Asked(f, Fields, reqs) = reqs
      BY <2>3, <3>3, AsksNothing
    <3> HIDE DEF f
    <3>5. /\ Asking(g) /\ g.toHide \cap g.toShow = {} /\ \A e \in Fields : ~ Asks(g, e)
          /\ \A reqs : Account(reqs, f) => Account(reqs, g)
          /\ Sends(f, nulls) <=> Form(f, nulls).errorList = {} /\ Form(f, nulls).pendingRequest = 0
          /\ Sends(f, nulls) => \A e \in Fields : Acceptable(e)
      BY <2>3, <3>4, SubmitFormFacts
    <3> HIDE DEF g
    <3>6. /\ Asking(h) /\ ~ h.formSubmitted /\ \A reqs : Account(reqs, g) => Account(reqs, h)
          /\ h.toHide \cap h.toShow = {} /\ \A e \in Fields : ~ Asks(h, e)
      BY <3>5, SettingKeepsAsking
    <3>7. ASSUME \A e \in Fields : ~ Asks(w, e) PROVE Sends(f, nulls)
      <4>1. SameAsked(w, f)
        BY <1>1, <2>1, <3>7, AsksNothing
      <4>2. ErrorsOf(f, Fields) = ErrorsOf(w, Fields)
        BY <4>1 DEF ErrorsOf, Verdict, Asks, SameAsked
      <4>3. f.errorList = ErrorsOf(w, Fields) /\ Form(f, nulls).errorList = ErrorsOf(f, Fields)
        BY <2>1, <2>3, <2>5, <3>4, FormFacts DEF Asking, Quiet
      <4>4. f.pendingRequest = 0 /\ Form(f, nulls).pendingRequest = 0
        BY <1>4, <3>4, <4>1 DEF SameAsked
      <4> QED
        BY <2>5, <3>5, <4>2, <4>3, <4>4
    <3> HIDE DEF s, h
    <3> QED
      BY <1>4, <2>3, <2>5, <3>2, <3>5, <3>6, <3>7 DEF s, f
  <2> QED
    BY <2>4, <2>5
<1> QED
  BY <1>2, <1>3, <1>4

--------------------------------------------------------------------------------
(* The account of the open questions.                                                  *)

ValidInv ==
  /\ ValueType /\ waiting \in BOOLEAN /\ sends \in Nat
  /\ Asking(v) /\ v.toHide \cap v.toShow = {}
  /\ Account(requests, v)

LEMMA ValidInvInit == ValidateInit => ValidInv
<1> SUFFICES ASSUME ValidateInit PROVE ValidInv
  OBVIOUS
<1>1. ValueType /\ waiting \in BOOLEAN /\ sends \in Nat /\ requests = {}
  BY DEF ValidateInit, ValueType, FieldValues
<1>2. /\ Fresh \in Validator /\ ~ Fresh.cancelSubmit /\ Fresh.pendingRequest = 0 /\ Fresh.pending = {}
      /\ Fresh.old = [e \in Remote |-> ""] /\ Fresh.toHide = {}
  BY DEF Fresh, Validator
<1>3. v = Fresh
  BY DEF ValidateInit
<1>4. Asking(v)
  BY <1>2, <1>3, FS_EmptySet DEF Asking
<1>5. Account(requests, v)
  BY <1>1, <1>2, <1>3 DEF Account, Open
<1> QED
  BY <1>1, <1>2, <1>3, <1>4, <1>5 DEF ValidInv

\* What a state of the validator and some requests make of the invariant of a step that takes
\* them.
LEMMA ValidInvTaken ==
  ASSUME ValueType', waiting' \in BOOLEAN, sends' \in Nat, NEW u, v' = u, Asking(u),
         u.toHide \cap u.toShow = {}, Account(requests', u)
  PROVE  ValidInv'
BY DEF ValidInv, Asking, Account, Open, LastAsked

\* The answers of aborted requests that a step may meet.
LEMMA QuietAlways ==
  ASSUME NoneLost, NEW reqs, NEW nulls \in Answering(reqs) PROVE Quiet(nulls)
<1>1. PICK loads \in AbortAnswers : nulls = IF loads THEN {r[1] : r \in reqs} ELSE {}
  BY DEF Answering
<1>2. loads = TRUE \/ nulls = {}
  BY <1>1, ValidateAssumption
<1> QED
  BY <1>1, <1>2 DEF Quiet, NoneLost

\* A step of the user or of the server.
LEMMA EditStep ==
  ASSUME ValidInv, NEW e \in Fields, write(e) PROVE ValidInv'
<1>1. UNCHANGED <<v, requests, sends, waiting>> /\ \E x \in FieldValues : value' = [value EXCEPT ![e] = x]
  BY DEF write
<1>2. ValueType'
  BY <1>1 DEF ValidInv, ValueType
<1> QED
  BY <1>1, <1>2, ValidInvTaken DEF ValidInv

\* Nothing is to be asked; the rules that the page checks pass.
NoAsks == \A e \in Fields : ~ Asks(v, e)
LocalOK == \A e \in Fields : value[e] # "malformed" /\ (value[e] = "" => e \notin Required)

LEMMA CheckedStep ==
  ASSUME NoneLost, ValidInv, NEW e \in Fields, onkeyup(e) \/ onfocusout(e)
  PROVE  /\ ValidInv' /\ (v'.formSubmitted => v.formSubmitted)
         /\ NoAsks => NoAsks' /\ v'.formSubmitted = v.formSubmitted /\ v'.pendingRequest = v.pendingRequest
<1>1. /\ \E nulls \in Answering(requests) : v' = Element(v, e, nulls)
      /\ requests' = Asked(v, {e}, requests) /\ UNCHANGED <<value, sends, waiting>>
  BY DEF onkeyup, onfocusout, Checked
<1>2. PICK nulls \in Answering(requests) : v' = Element(v, e, nulls)
  BY <1>1
<1> DEFINE u == Element(v, e, nulls)
<1>3. Quiet(nulls)
  BY QuietAlways
<1>4. ValueType' /\ waiting' \in BOOLEAN /\ sends' \in Nat
  BY <1>1 DEF ValidInv, ValueType
<1>5. Asking(v) /\ ValueType /\ {e} \in SUBSET Fields /\ Account(requests, v)
  BY DEF ValidInv
<1>6. Checks(v, {e}, nulls, u) /\ u.toHide \cap u.toShow = {}
  BY <1>3, <1>5, ElementFacts DEF Asking, Quiet
<1> HIDE DEF u
<1>7. Asking(u) /\ Account(Asked(v, {e}, requests), u)
  BY <1>3, <1>5, <1>6, ChecksKeepAsking
<1>8. v' = u
  BY <1>2 DEF u
<1>9. ValidInv'
  BY <1>1, <1>4, <1>6, <1>7, <1>8, ValidInvTaken
<1>10. v'.formSubmitted => v.formSubmitted
  BY <1>6, <1>8 DEF Checks
<1>11. NoAsks => SameAsked(v, v')
  BY <1>5, <1>6, <1>8, AsksNothing DEF NoAsks
<1>12. NoAsks => NoAsks' /\ v'.formSubmitted = v.formSubmitted /\ v'.pendingRequest = v.pendingRequest
  BY <1>1, <1>11 DEF NoAsks, Asks, SameAsked
<1> QED
  BY <1>9, <1>10, <1>12

\* The button of class "cancel" leaves the validator as it is.
LEMMA CancelFacts ==
  ASSUME NEW w, Asking(w), NEW c \in BOOLEAN, NEW nulls
  PROVE  LET u == [w EXCEPT !.cancelSubmit = c]
             x == SubmitForm(u, nulls)
         IN /\ ~ c => Asking(u) /\ u.formSubmitted = w.formSubmitted
            /\ \A reqs : Account(reqs, w) => Account(reqs, u)
            /\ \A E, reqs : Asked(u, E, reqs) = Asked(w, E, reqs)
            /\ c => /\ Asking(x) /\ Sends(u, nulls) /\ \A reqs : Account(reqs, w) => Account(reqs, x)
                    /\ x.toHide = w.toHide /\ x.toShow = w.toShow
                    /\ x.formSubmitted = w.formSubmitted
<1> DEFINE u == [w EXCEPT !.cancelSubmit = c]
           x == [u EXCEPT !.cancelSubmit = FALSE]
<1>1. /\ u \in Validator /\ u.cancelSubmit = c
      /\ u.pendingRequest = w.pendingRequest /\ u.pending = w.pending
      /\ u.old = w.old /\ u.valid = w.valid /\ u.formSubmitted = w.formSubmitted
      /\ u.toHide = w.toHide /\ u.toShow = w.toShow
  BY DEF Asking, Validator
<1> HIDE DEF u
<1>2. /\ x \in Validator /\ x.cancelSubmit = FALSE
      /\ x.pendingRequest = u.pendingRequest /\ x.pending = u.pending
      /\ x.old = u.old /\ x.valid = u.valid /\ x.formSubmitted = u.formSubmitted
      /\ x.toHide = u.toHide /\ x.toShow = u.toShow
  BY <1>1 DEF Validator
<1> HIDE DEF x
<1>3. ~ c => Asking(u)
  BY <1>1 DEF Asking
<1>4. \A E, reqs : Asked(u, E, reqs) = Asked(w, E, reqs)
  BY <1>1 DEF Asked, AskedOf, Asks
<1>5. c => SubmitForm(u, nulls) = x /\ Sends(u, nulls)
  BY <1>1 DEF SubmitForm, Sends, x
<1>6. Asking(x)
  BY <1>1, <1>2, ZenonT(60) DEF Asking
<1>7. /\ Open(u) = Open(w) /\ LastAsked(u) = LastAsked(w) /\ Open(x) = Open(w) /\ LastAsked(x) = LastAsked(w)
  BY <1>1, <1>2 DEF Open, LastAsked
<1>8. \A reqs : Account(reqs, w) => Account(reqs, u) /\ Account(reqs, x)
  BY <1>7 DEF Account
<1> QED
  BY <1>1, <1>2, <1>3, <1>4, <1>5, <1>6, <1>8 DEF u

LEMMA NoErrors ==
  ASSUME ValueType, NEW w, Asking(w), NEW nulls, Quiet(nulls), Form(w, nulls).errorList = {}
  PROVE  LocalOK
<1>1. ErrorsOf(w, Fields) = {}
  BY FormFacts DEF Asking, Quiet
<1>2. \A e \in Fields : Verdict(w, e) # "error"
  BY <1>1 DEF ErrorsOf
<1> QED
  BY <1>2 DEF Verdict, LocalOK

LEMMA SubmitStep ==
  ASSUME NoneLost, ValidInv, submit
  PROVE  /\ ValidInv' /\ (~ Cancels => SendsValid)
         /\ v'.formSubmitted => v.formSubmitted \/ waiting'
         /\ waiting' => v'.formSubmitted /\ v'.pendingRequest # 0 /\ NoAsks' /\ LocalOK'
<1>1. PICK cancel \in {FALSE} \cup {Cancels}, nulls \in Answering(requests) :
        LET w == [v EXCEPT !.cancelSubmit = cancel]
        IN /\ v' = SubmitForm(w, nulls)
           /\ requests' = IF cancel THEN requests ELSE Asked(w, Fields, requests)
           /\ sends' = IF Sends(w, nulls) THEN sends + 1 ELSE sends
           /\ waiting' = (~ Sends(w, nulls) /\ Form(w, nulls).errorList = {})
  BY DEF submit
<1> DEFINE w == [v EXCEPT !.cancelSubmit = cancel]
           u == SubmitForm(w, nulls)
<1>2. /\ v' = u
      /\ requests' = IF cancel THEN requests ELSE Asked(w, Fields, requests)
      /\ sends' = IF Sends(w, nulls) THEN sends + 1 ELSE sends
      /\ waiting' = (~ Sends(w, nulls) /\ Form(w, nulls).errorList = {})
  BY <1>1
<1>3. cancel \in BOOLEAN /\ (~ Cancels => ~ cancel)
  <2>1. CASE cancel = FALSE
    BY <2>1
  <2>2. CASE cancel = Cancels
    <3>1. Cancels \in BOOLEAN
      BY ValidateAssumption
    <3> QED
      BY <2>2, <3>1, Zenon
  <2> QED
    BY <2>1, <2>2
<1>4. Quiet(nulls)
  BY QuietAlways
<1>5. Asking(v) /\ Account(requests, v) /\ ValueType /\ sends \in Nat /\ v.toHide \cap v.toShow = {}
  BY DEF ValidInv
<1>6. /\ ~ cancel => Asking(w) /\ w.formSubmitted = v.formSubmitted
      /\ Account(requests, w)
      /\ cancel => /\ Asking(u) /\ Sends(w, nulls) /\ Account(requests, u)
                   /\ u.toHide = v.toHide /\ u.toShow = v.toShow
                   /\ u.formSubmitted = v.formSubmitted
  BY <1>3, <1>5, CancelFacts
<1>7. value' = value
  BY DEF submit
<1>8. ValueType' /\ waiting' \in BOOLEAN /\ sends' \in Nat
  <2>1. waiting' \in BOOLEAN
    BY <1>2
  <2>2. sends' \in Nat
    BY <1>2, <1>5
  <2> QED
    BY <1>5, <1>7, <2>1, <2>2 DEF ValueType
<1> HIDE DEF w
<1>9. CASE cancel
  <2> HIDE DEF u
  <2>1. ValidInv'
    BY <1>2, <1>5, <1>6, <1>8, <1>9, ValidInvTaken
  <2>2. v'.formSubmitted = v.formSubmitted /\ ~ waiting'
    BY <1>2, <1>6, <1>9
  <2> QED
    BY <1>3, <1>9, <2>1, <2>2
<1>10. CASE ~ cancel
  <2> DEFINE f == Form(w, nulls)
  <2>1. /\ Asking(u) /\ u.toHide \cap u.toShow = {} /\ \A e \in Fields : ~ Asks(u, e)
        /\ Account(Asked(w, Fields, requests), u)
        /\ u.formSubmitted => w.formSubmitted \/ (f.errorList = {} /\ f.pendingRequest # 0)
        /\ f.errorList = {} /\ f.pendingRequest # 0 => u.formSubmitted /\ u.pendingRequest # 0
        /\ Sends(w, nulls) <=> f.errorList = {} /\ f.pendingRequest = 0
        /\ Sends(w, nulls) => \A e \in Fields : Acceptable(e)
    BY <1>4, <1>5, <1>6, <1>10, SubmitFormFacts
  <2>2. f.errorList = {} => LocalOK
    BY <1>4, <1>5, <1>6, <1>10, NoErrors
  <2> HIDE DEF u, f
  <2>3. waiting' <=> f.errorList = {} /\ f.pendingRequest # 0
    BY <1>2, <2>1 DEF f
  <2>4. ValidInv'
    BY <1>2, <1>8, <1>10, <2>1, ValidInvTaken
  <2>5. SendsValid
    BY <1>2, <2>1 DEF SendsValid
  <2>6. v'.formSubmitted => v.formSubmitted \/ waiting'
    BY <1>2, <1>6, <1>10, <2>1, <2>3
  <2>7. NoAsks'
    BY <1>2, <1>7, <2>1 DEF NoAsks, Asks
  <2>8. waiting' => v'.formSubmitted /\ v'.pendingRequest # 0 /\ LocalOK'
    BY <1>2, <1>7, <2>1, <2>2, <2>3 DEF LocalOK
  <2> QED
    BY <2>4, <2>5, <2>6, <2>7, <2>8
<1> QED
  BY <1>9, <1>10

LEMMA ResetStep == ASSUME ValidInv, resetValidator PROVE ValidInv' /\ v'.formSubmitted = v.formSubmitted /\ ~ waiting'
<1> DEFINE p == Prepare(v, Fields \cup {Box})
           u == [p EXCEPT !.submitted = {}, !.shown = {}, !.highlighted = {}]
<1>1. v' = u /\ value' = [e \in Fields |-> ""] /\ waiting' = FALSE /\ UNCHANGED <<requests, sends>>
  BY DEF resetValidator
<1>2. p \in Validator /\ SameAsked(v, p) /\ p.toShow = {}
  BY PrepareFacts DEF ValidInv, Asking, Labels
<1> HIDE DEF p
<1>3. u \in Validator /\ SameAsked(p, u) /\ u.toShow = {}
  BY <1>2 DEF Validator, SameAsked
<1> HIDE DEF u
<1>4. SameAsked(v, u)
  BY <1>2, <1>3 DEF SameAsked
<1>5. Asking(u) /\ Open(u) = Open(v) /\ LastAsked(u) = LastAsked(v) /\ u.formSubmitted = v.formSubmitted
  BY <1>3, <1>4, ZenonT(60) DEF ValidInv, Asking, Open, LastAsked, SameAsked
<1>6. ValueType'
  BY <1>1 DEF ValueType, FieldValues
<1>7. Account(requests, u)
  BY <1>5 DEF ValidInv, Account
<1>8. ValidInv'
  BY <1>1, <1>3, <1>5, <1>6, <1>7, ValidInvTaken DEF ValidInv
<1> QED
  BY <1>1, <1>5, <1>8

\* The answer to a request: of what it says is what is submitted.
LEMMA SuccessStep ==
  ASSUME NoneLost, ValidInv, success
  PROVE  /\ ValidInv' /\ SendsValid /\ (NoAsks => NoAsks')
         /\ sends' # sends => v.formSubmitted
         /\ ~ waiting => ~ waiting'
         /\ NoAsks /\ v.formSubmitted /\ waiting =>
              \/ waiting' /\ v'.formSubmitted /\ v'.pendingRequest # 0
              \/ ~ waiting' /\ (sends' # sends \/ \E e \in Fields : e \in v'.shown)
         /\ (v.formSubmitted => NoAsks /\ LocalOK /\ OneRemote) => ~ v'.formSubmitted
<1>1. PICK r \in requests : \E nulls \in Answering(requests \ {r}) :
        LET ok == r[2] = "good"
            w == Answered(v, r[1], ok)
            s == stopRequest(w, ok, nulls)
            tried == ok /\ w.pendingRequest = 0 /\ w.formSubmitted
        IN /\ v' = s.w
           /\ requests' = IF tried THEN Asked(w, Fields, requests \ {r}) ELSE requests \ {r}
           /\ sends' = IF s.sent THEN sends + 1 ELSE sends
           /\ waiting' = (waiting /\ ~ s.sent
                            /\ (w.pendingRequest = 0 => ok /\ Form(w, nulls).errorList = {}))
           /\ UNCHANGED <<value, asks>>
  BY DEF success
<1>2. Asking(v) /\ Account(requests, v) /\ ValueType /\ sends \in Nat
  BY DEF ValidInv
<1>3. PICK e \in Remote : v.old[e] # "" /\ r = <<e, v.old[e]>>
  BY <1>1, <1>2 DEF Account, LastAsked
<1>4. e \in v.pending \/ OneRemote
  <2>1. CASE OneRemote
    BY <2>1
  <2>2. CASE TRUE \notin AbortAnswers
    <3>1. r \in Open(v)
      BY <1>1, <1>2, <2>2 DEF Account
    <3> QED
      BY <1>3, <3>1 DEF Open
  <2> QED
    BY <2>1, <2>2 DEF NoneLost
<1> DEFINE ok == v.old[e] = "good"
           w == Answered(v, e, ok)
           left == requests \ {<<e, v.old[e]>>}
           tried == ok /\ w.pendingRequest = 0 /\ w.formSubmitted
<1>5. r[1] = e /\ r[2] = v.old[e]
  BY <1>3
<1>6. PICK nulls \in Answering(left) :
        /\ v' = stopRequest(w, ok, nulls).w
        /\ requests' = IF tried THEN Asked(w, Fields, left) ELSE left
        /\ sends' = IF stopRequest(w, ok, nulls).sent THEN sends + 1 ELSE sends
        /\ waiting' = (waiting /\ ~ stopRequest(w, ok, nulls).sent
                         /\ (w.pendingRequest = 0 => ok /\ Form(w, nulls).errorList = {}))
        /\ value' = value
  BY <1>1, <1>3, <1>5, Zenon
<1> DEFINE s == stopRequest(w, ok, nulls)
<1>7. /\ v' = s.w
      /\ requests' = IF tried THEN Asked(w, Fields, left) ELSE left
      /\ sends' = IF s.sent THEN sends + 1 ELSE sends
      /\ waiting' = (waiting /\ ~ s.sent /\ (w.pendingRequest = 0 => ok /\ Form(w, nulls).errorList = {}))
      /\ value' = value
  BY <1>6
<1>8. ok \in BOOLEAN /\ (ok <=> v.old[e] = "good") /\ e \in Fields /\ v.pending \subseteq Remote
  BY <1>2, ValidateAssumption DEF Asking, Validator
<1>9. Quiet(nulls)
  BY QuietAlways
<1> HIDE DEF ok
<1>10. /\ w \in Validator /\ Asking(w) /\ w.toHide \cap w.toShow = {}
       /\ w.pending = v.pending \ {e} /\ w.old = v.old /\ w.formSubmitted = v.formSubmitted
       /\ w.valid = [v.valid EXCEPT ![e] = ok]
       /\ Account(left, w)
       /\ ~ ok => e \in w.shown
  BY <1>2, <1>4, <1>8, AnsweredFacts
<1> HIDE DEF w, left
<1>11. NoAsks <=> \A f \in Fields : ~ Asks(w, f)
  BY <1>10 DEF NoAsks, Asks
<1>12. /\ Asking(s.w) /\ s.w.toHide \cap s.w.toShow = {}
       /\ tried => Account(Asked(w, Fields, left), s.w)
       /\ ~ tried => Account(left, s.w)
       /\ s.sent => tried /\ Form(w, nulls).errorList = {} /\ \A f \in Fields : Acceptable(f)
       /\ ~ (w.pendingRequest = 0 /\ w.formSubmitted) => s.w = w
       /\ w.pendingRequest = 0 /\ w.formSubmitted /\ ~ ok => ~ s.w.formSubmitted /\ s.w.shown = w.shown
       /\ tried /\ Form(w, nulls).errorList # {} => \E f \in Fields : f \in s.w.shown
       /\ tried /\ Form(w, nulls).errorList = {} => ~ s.w.formSubmitted
       /\ (\A f \in Fields : ~ Asks(w, f)) =>
            /\ \A f \in Fields : ~ Asks(s.w, f)
            /\ tried /\ Form(w, nulls).errorList = {} => s.sent
  BY <1>2, <1>8, <1>9, <1>10, StopRequestFacts
<1> HIDE DEF s
<1>13. ValueType' /\ waiting' \in BOOLEAN /\ sends' \in Nat
  <2>1. waiting' \in BOOLEAN
    BY <1>7
  <2>2. sends' \in Nat
    BY <1>2, <1>7
  <2> QED
    BY <1>2, <1>7, <2>1, <2>2 DEF ValueType
<1>14. ValidInv'
  <2>1. Account(requests', s.w)
    BY <1>7, <1>12
  <2> QED
    BY <1>7, <1>12, <1>13, <2>1, ValidInvTaken
<1>15. SendsValid /\ (sends' # sends => s.sent /\ v.formSubmitted)
  BY <1>7, <1>10, <1>12 DEF SendsValid
<1>16. NoAsks => NoAsks'
  BY <1>7, <1>11, <1>12 DEF NoAsks, Asks
<1>17. ASSUME NoAsks, v.formSubmitted, waiting
       PROVE  \/ waiting' /\ v'.formSubmitted /\ v'.pendingRequest # 0
              \/ ~ waiting' /\ (sends' # sends \/ \E f \in Fields : f \in v'.shown)
  <2>1. CASE w.pendingRequest # 0
    BY <1>7, <1>10, <1>12, <1>17, <2>1
  <2>2. CASE w.pendingRequest = 0 /\ ~ ok
    BY <1>7, <1>8, <1>10, <1>12, <1>17, <2>2
  <2>3. CASE w.pendingRequest = 0 /\ ok /\ Form(w, nulls).errorList # {}
    BY <1>7, <1>10, <1>12, <1>17, <2>3
  <2>4. CASE w.pendingRequest = 0 /\ ok /\ Form(w, nulls).errorList = {}
    <3>1. s.sent
      BY <1>10, <1>11, <1>12, <1>17, <2>4
    <3>2. sends' = sends + 1 /\ ~ waiting'
      BY <1>7, <3>1
    <3> QED
      BY <1>2, <3>2
  <2> QED
    BY <2>1, <2>2, <2>3, <2>4
<1>18. ASSUME v.formSubmitted => NoAsks /\ LocalOK /\ OneRemote PROVE ~ v'.formSubmitted
  <2>1. CASE ~ v.formSubmitted
    BY <1>7, <1>10, <1>12, <2>1
  <2>2. CASE v.formSubmitted
    <3>1. w.pending = {}
      BY <1>8, <1>10, <1>18, <2>2 DEF OneRemote
    <3>2. w.pendingRequest = 0
      BY <1>10, <3>1, FS_EmptySet DEF Asking
    <3>3. CASE ~ ok
      BY <1>7, <1>10, <1>12, <2>2, <3>2, <3>3
    <3>4. CASE ok
      <4>1. \A f \in Fields : Verdict(w, f) # "error" /\ ~ Asks(w, f)
        <5> TAKE f \in Fields
        <5>1. value[f] # "malformed" /\ (value[f] = "" => f \notin Required) /\ ~ Asks(w, f)
          BY <1>11, <1>18, <2>2 DEF LocalOK
        <5>2. f \in Remote => w.valid[f]
          <6>1. v.valid \in [Remote -> BOOLEAN]
            BY <1>2 DEF Asking, Validator
          <6>2. w.valid[e] = TRUE
            BY <1>10, <3>4, <6>1
          <6>3. f \in Remote => f = e
            BY <1>18, <2>2 DEF OneRemote
          <6> QED
            BY <6>2, <6>3
        <5> QED
          BY <5>1, <5>2 DEF Verdict
      <4>2. ErrorsOf(w, Fields) = {} /\ Nulled(w, Fields, nulls) = {}
        BY <4>1 DEF ErrorsOf, Nulled, AskedOf
      <4>3. Form(w, nulls).errorList = {}
        BY <1>2, <1>9, <1>10, <4>2, FormFacts DEF Asking, Quiet
      <4> QED
        BY <1>7, <1>10, <1>12, <2>2, <3>2, <3>4, <4>3
    <3> QED
      BY <3>3, <3>4
  <2> QED
    BY <2>1, <2>2
<1> QED
  BY <1>7, <1>14, <1>15, <1>16, <1>17, <1>18

LEMMA ValidInvNext == NoneLost /\ ValidInv /\ [ValidateNext]_vvars => ValidInv'
<1> SUFFICES ASSUME NoneLost, ValidInv, [ValidateNext]_vvars PROVE ValidInv'
  OBVIOUS
<1>1. CASE fail
  <2>1. Fails /\ requests' \subseteq requests /\ UNCHANGED <<value, v, sends, waiting>>
    BY <1>1 DEF fail
  <2>2. ValueType'
    BY <2>1 DEF ValidInv, ValueType
  <2>3. Account(requests', v)
    BY <2>1 DEF ValidInv, Account
  <2> QED
    BY <2>1, <2>2, <2>3, ValidInvTaken DEF ValidInv
<1>2. CASE UNCHANGED vvars
  <2>1. UNCHANGED <<value, v, requests, sends, waiting>>
    BY <1>2 DEF vvars
  <2>2. ValueType'
    BY <2>1 DEF ValidInv, ValueType
  <2> QED
    BY <2>1, <2>2, ValidInvTaken DEF ValidInv
<1> QED
  BY <1>1, <1>2, EditStep, CheckedStep, SubmitStep, ResetStep, SuccessStep DEF ValidateNext

LEMMA ValidInvAlways == NoneLost => (ValidateSpec => []ValidInv)
<1> SUFFICES ASSUME NoneLost PROVE ValidateSpec => []ValidInv
  OBVIOUS
<1>1. ValidateInit => ValidInv
  BY ValidInvInit
<1>2. ValidInv /\ [ValidateNext]_vvars => ValidInv'
  BY ValidInvNext
<1> QED
  BY <1>1, <1>2, PTL DEF ValidateSpec

--------------------------------------------------------------------------------
(* What is sent and what waits.                                                        *)

LEMMA SendsValidStep ==
  ASSUME NoneLost, ~ Cancels, ValidInv, [ValidateNext]_vvars PROVE [SendsValid]_vvars
<1>1. CASE submit \/ success
  BY <1>1, SubmitStep, SuccessStep
<1>2. CASE \E e \in Fields : write(e) \/ onkeyup(e) \/ onfocusout(e)
  BY <1>2 DEF SendsValid, write, onkeyup, onfocusout
<1>3. CASE resetValidator \/ fail
  BY <1>3 DEF SendsValid, resetValidator, fail
<1> QED
  BY <1>1, <1>2, <1>3 DEF ValidateNext

\* A form without a button of class "cancel" is only sent when all that is in it passes all the
\* rules: however the user types while questions are open, whether answers fail, are late or
\* about values of another time, and for any fields and rules if an aborted request says
\* nothing.  If it may answer null, and so be taken for the one that is open, the form is one
\* with a single field that asks (stopRequest, the handler of submit).
THEOREM FormsAlwaysValid == NoneLost /\ ~ Cancels => (ValidateSpec => FormsValid)
<1> SUFFICES ASSUME NoneLost, ~ Cancels PROVE ValidateSpec => FormsValid
  OBVIOUS
<1>1. ValidInv /\ [ValidateNext]_vvars => [SendsValid]_vvars
  BY SendsValidStep
<1>2. ValidateSpec => []ValidInv
  BY ValidInvAlways
<1> QED
  BY <1>1, <1>2, PTL DEF ValidateSpec, FormsValid

\* The requests that are open are those of the fields that are pending, when one field asks and
\* is pending, or an aborted request is silent.
LEMMA OpenCounts ==
  ASSUME ~ Fails, OneRemote, ValidInv, waiting => v.pendingRequest # 0 PROVE PendingCounts
<1>1. v \in Validator /\ v.pendingRequest = Cardinality(v.pending) /\ Account(requests, v)
  BY DEF ValidInv, Asking
<1>2. ASSUME waiting \/ TRUE \notin AbortAnswers PROVE requests = Open(v)
  <2>1. CASE TRUE \notin AbortAnswers
    BY <1>1, <2>1 DEF Account
  <2>2. CASE waiting
    <3>1. v.pending # {}
      BY <1>1, <2>2, FS_EmptySet
    <3>2. v.pending = Remote
      BY <1>1, <3>1, ZenonT(60) DEF OneRemote, Validator
    <3>3. LastAsked(v) \subseteq Open(v)
      BY <3>2 DEF LastAsked, Open
    <3> QED
      BY <1>1, <3>3 DEF Account
  <2> QED
    BY <1>2, <2>1, <2>2
<1> QED
  BY <1>1, <1>2, CountOpen DEF PendingCounts

\* A submission that waits is remembered, and its answers are about what is in the fields; what
\* is remembered waits.
WaitInv ==
  /\ asks \in Nat
  /\ waiting => v.formSubmitted /\ v.pendingRequest # 0 /\ NoAsks
  /\ OneRemote /\ v.formSubmitted => waiting /\ LocalOK

WaitStep ==
  /\ WaitInv'
  /\ OneRemote /\ sends' # sends => waiting \/ asks' # asks
  /\ waiting /\ ~ waiting' /\ sends' = sends => \E e \in Fields : e \in v'.shown

LEMMA WaitInvInit == ValidateInit => WaitInv
<1> SUFFICES ASSUME ValidateInit PROVE WaitInv
  OBVIOUS
<1>1. Fresh.formSubmitted = FALSE
  BY DEF Fresh
<1>2. ~ v.formSubmitted /\ ~ waiting /\ asks \in Nat
  BY <1>1 DEF ValidateInit
<1> QED
  BY <1>2 DEF WaitInv

LEMMA WaitInvNext ==
  ASSUME NoneLost, Patient, ValidInv, WaitInv, [ValidateNext]_vvars PROVE WaitStep
<1>1. ASSUME NEW e \in Fields, write(e) PROVE WaitStep
  <2>1. ~ waiting /\ UNCHANGED <<v, asks, sends, waiting>>
    BY <1>1 DEF write, MayEdit
  <2> QED
    BY <2>1 DEF WaitInv, WaitStep
<1>2. ASSUME NEW e \in Fields, onkeyup(e) \/ onfocusout(e) PROVE WaitStep
  <2>1. UNCHANGED <<value, asks, sends, waiting>>
    BY <1>2 DEF onkeyup, onfocusout
  <2>2. /\ v'.formSubmitted => v.formSubmitted
        /\ NoAsks => NoAsks' /\ v'.formSubmitted = v.formSubmitted /\ v'.pendingRequest = v.pendingRequest
    BY <1>2, CheckedStep
  <2>3. LocalOK' = LocalOK
    BY <2>1 DEF LocalOK
  <2> QED
    BY <2>1, <2>2, <2>3 DEF WaitInv, WaitStep
<1>3. CASE submit
  <2>1. ~ waiting /\ asks' = asks + 1 /\ asks \in Nat
    BY <1>3 DEF submit, MayEdit, WaitInv
  <2>2. /\ v'.formSubmitted => v.formSubmitted \/ waiting'
        /\ waiting' => v'.formSubmitted /\ v'.pendingRequest # 0 /\ NoAsks' /\ LocalOK'
    BY <1>3, SubmitStep
  <2>3. asks' \in Nat /\ asks' # asks
    BY <2>1
  <2> QED
    BY <2>1, <2>2, <2>3 DEF WaitInv, WaitStep
<1>4. CASE resetValidator
  <2>1. v'.formSubmitted = v.formSubmitted /\ ~ waiting'
    BY <1>4, ResetStep
  <2>2. ~ waiting /\ UNCHANGED <<asks, sends>>
    BY <1>4 DEF resetValidator, MayEdit
  <2> QED
    BY <2>1, <2>2 DEF WaitInv, WaitStep
<1>5. CASE success
  <2>1. value' = value /\ asks' = asks
    BY <1>5 DEF success
  <2>2. /\ NoAsks => NoAsks'
        /\ sends' # sends => v.formSubmitted
        /\ ~ waiting => ~ waiting'
        /\ NoAsks /\ v.formSubmitted /\ waiting =>
             \/ waiting' /\ v'.formSubmitted /\ v'.pendingRequest # 0
             \/ ~ waiting' /\ (sends' # sends \/ \E e \in Fields : e \in v'.shown)
        /\ (v.formSubmitted => NoAsks /\ LocalOK /\ OneRemote) => ~ v'.formSubmitted
    BY <1>5, SuccessStep
  <2> QED
    BY <2>1, <2>2 DEF WaitInv, WaitStep
<1>6. CASE fail \/ UNCHANGED vvars
  <2>1. UNCHANGED <<value, v, asks, sends, waiting>>
    BY <1>6 DEF fail, vvars
  <2>2. LocalOK' = LocalOK /\ NoAsks' = NoAsks
    BY <2>1 DEF LocalOK, NoAsks, Asks
  <2> QED
    BY <2>1, <2>2 DEF WaitInv, WaitStep
<1> QED
  BY <1>1, <1>2, <1>3, <1>4, <1>5, <1>6 DEF ValidateNext

\* While the user leaves alone what waits, all requests are answered and one field at most asks
\* the server: a submission that waits is remembered and the requests it waits for are counted,
\* also after aborted ones that answered null; what is sent was submitted, and what is not leaves
\* an error (startRequest, stopRequest).
THEOREM SubmissionsAlwaysKept == ~ Fails /\ Patient /\ OneRemote => (ValidateSpec => SubmissionsKept)
<1> SUFFICES ASSUME ~ Fails, Patient, OneRemote PROVE ValidateSpec => SubmissionsKept
  OBVIOUS
<1>1. ValidateInit => WaitInv
  BY WaitInvInit
<1>2. NoneLost
  BY DEF NoneLost
<1>3. ValidInv /\ WaitInv /\ [ValidateNext]_vvars => WaitInv'
  BY <1>2, WaitInvNext DEF WaitStep
<1>4. ValidInv /\ WaitInv => PendingCounts /\ WaitingKept
  BY OpenCounts DEF WaitInv, WaitingKept
<1>5. ValidInv /\ WaitInv /\ [ValidateNext]_vvars => [sends' # sends => waiting \/ asks' # asks]_vvars
  BY <1>2, WaitInvNext DEF WaitStep
<1>6. ValidInv /\ WaitInv /\ [ValidateNext]_vvars
        => [waiting /\ ~ waiting' /\ sends' = sends => \E e \in Fields : e \in v'.shown]_vvars
  BY <1>2, WaitInvNext DEF WaitStep
<1>7. ValidateSpec => []ValidInv
  BY <1>2, ValidInvAlways
<1> QED
  BY <1>1, <1>3, <1>4, <1>5, <1>6, <1>7, PTL DEF ValidateSpec, SubmissionsKept, SentAsked, Told

--------------------------------------------------------------------------------
(* What is marked on the page, and the types.                                          *)

\* What is marked is labelled.
Marked(w) ==
  /\ w \in Validator /\ w.pendingRequest = Cardinality(w.pending)
  /\ w.highlighted = w.shown \cap Fields

LEMMA BoxIsNoField == Box \notin Fields
BY ValidateAssumption DEF Box

\* Where no field asks the server, no verdict is pending and no request is aborted.
LEMMA NothingPending ==
  ASSUME Remote = {}, NEW w \in Validator, NEW E \in SUBSET Fields
  PROVE  /\ {e \in E : Verdict(w, e) = "pending"} = {}
         /\ OneRemote /\ \A nulls : Nulled(w, E, nulls) = {}
<1>1. w.pending = {}
  BY DEF Validator
<1> QED
  BY <1>1 DEF Verdict, Asks, OneRemote, Nulled, AskedOf

\* What is shown after a check that hides the labels of what it checks and shows its errors.
LEMMA ShowMarks ==
  ASSUME NEW w, Marked(w), w.toShow = {}, w.errorList \subseteq w.currentElements,
         w.toHide \cap Fields = w.currentElements
  PROVE  Marked(ShowErrors(w))
<1> DEFINE u == ShowErrors(w)
           show == w.toShow \cup w.errorList \cup (IF w.errorList # {} THEN {Box} ELSE {})
<1>1. /\ w \in Validator /\ w.pendingRequest = Cardinality(w.pending)
      /\ w.highlighted = w.shown \cap Fields
  BY DEF Marked
<1>2. /\ u \in Validator /\ SameAsked(w, u)
      /\ u.shown = (w.shown \ w.toHide) \cup show
      /\ u.highlighted = (w.highlighted \cup w.errorList) \ (w.currentElements \ w.errorList)
  BY <1>1, ShowErrorsFacts
<1>3. show \cap Fields = w.errorList /\ w.errorList \subseteq Fields
  <2>1. w.errorList \subseteq Fields
    BY <1>1 DEF Validator
  <2> QED
    BY <1>1, <2>1, BoxIsNoField
<1> HIDE DEF u, show
<1>4. u.shown \cap Fields = ((w.shown \cap Fields) \ w.currentElements) \cup w.errorList
  BY <1>2, <1>3
<1>5. u.highlighted = u.shown \cap Fields
  BY <1>1, <1>2, <1>4
<1>6. u.pendingRequest = Cardinality(u.pending)
  BY <1>1, <1>2 DEF SameAsked
<1> QED
  BY <1>2, <1>5, <1>6 DEF Marked, u

LEMMA FormMarks ==
  ASSUME Remote = {}, ValueType, NEW w, Marked(w), NEW nulls PROVE Marked(Form(w, nulls))
<1> DEFINE p == Prepare(w, Fields \cup {Box})
           c == Check(p, Fields, nulls)
           map == {e \in Fields : Verdict(w, e) = "error"} \cup Nulled(w, Fields, nulls)
           d == [c EXCEPT !.currentElements = Fields, !.invalid = map, !.submitted = @ \cup map]
<1>1. Form(w, nulls) = ShowErrors(d)
  BY DEF Form
<1>2. map \in SUBSET Fields
  BY DEF Nulled, AskedOf
<1> HIDE DEF map
<1>3. /\ Marked(p) /\ p \in Validator /\ p.errorList = {} /\ p.toShow = {}
      /\ p.toHide = Fields \cup {Box}
  BY PrepareFacts DEF Marked, Labels, SameAsked
<1> HIDE DEF p
<1>4. /\ c \in Validator /\ c.pendingRequest = Cardinality(c.pending)
      /\ c.errorList \subseteq Fields /\ c.toShow = {}
      /\ c.toHide = Fields \cup {Box} /\ c.shown = p.shown /\ c.highlighted = p.highlighted
  <2>1. p.pendingRequest = Cardinality(p.pending) /\ Fields \in SUBSET Fields
    BY <1>3 DEF Marked
  <2>2. /\ {e \in Fields : Verdict(p, e) = "pending"} = {}
        /\ OneRemote /\ Nulled(p, Fields, nulls) = {}
    BY <1>3, <2>1, NothingPending
  <2>3. /\ Checks(p, Fields, nulls, c)
        /\ Nulled(p, Fields, nulls) = {} =>
             /\ c.toHide = p.toHide \ {e \in Fields : Verdict(p, e) = "pending"}
             /\ c.toShow = p.toShow /\ c.shown = p.shown /\ c.highlighted = p.highlighted
    <3> HIDE DEF c
    <3> QED
      BY <1>3, <2>1, <2>2, CheckFacts, ZenonT(60) DEF c
  <2> HIDE DEF c
  <2>4. c \in Validator /\ c.pendingRequest = Cardinality(c.pending)
    BY <2>3 DEF Checks
  <2>5. c.errorList \subseteq Fields
    BY <2>4 DEF Validator
  <2> QED
    BY <1>3, <2>2, <2>3, <2>4, <2>5
<1> HIDE DEF c
<1>5. /\ d \in Validator /\ d.pendingRequest = c.pendingRequest /\ d.pending = c.pending
      /\ d.toShow = {} /\ d.currentElements = Fields
      /\ d.errorList = c.errorList /\ d.toHide = c.toHide
      /\ d.shown = c.shown /\ d.highlighted = c.highlighted
  BY <1>2, <1>4 DEF Validator
<1> HIDE DEF d
<1>6. Marked(d) /\ d.toHide \cap Fields = d.currentElements /\ d.errorList \subseteq d.currentElements
  BY <1>3, <1>4, <1>5, BoxIsNoField DEF Marked
<1> QED
  BY <1>1, <1>5, <1>6, ShowMarks

LEMMA ElementMarks ==
  ASSUME Remote = {}, ValueType, NEW w, Marked(w), NEW f \in Fields, NEW nulls
  PROVE  Marked(Element(w, f, nulls))
<1> DEFINE l == [w EXCEPT !.lastElement = {f}]
           p == Prepare(l, {f})
           k == Check(p, {f}, nulls)
           c == [k EXCEPT !.currentElements = {f}]
           invalid == IF Verdict(w, f) = "valid" THEN c.invalid \ {f} ELSE c.invalid \cup {f}
           d == [c EXCEPT !.invalid = invalid,
                          !.toHide = IF invalid = {} THEN @ \cup {Box} ELSE @]
<1>1. Element(w, f, nulls) = ShowErrors(d)
  BY DEF Element
<1>2. l \in Validator /\ Marked(l)
  BY DEF Validator, Marked
<1> HIDE DEF l
<1>3. Marked(p) /\ p \in Validator /\ p.errorList = {} /\ p.toShow = {} /\ p.toHide = {f}
  BY <1>2, PrepareFacts DEF Marked, Labels, SameAsked
<1> HIDE DEF p
<1>4. /\ k \in Validator /\ k.pendingRequest = Cardinality(k.pending)
      /\ k.errorList \subseteq {f} /\ k.toShow = {} /\ k.toHide = {f}
      /\ k.shown = p.shown /\ k.highlighted = p.highlighted
  <2>1. {f} \in SUBSET Fields /\ p.pendingRequest = Cardinality(p.pending)
    BY <1>3 DEF Marked
  <2>2. /\ {e \in {f} : Verdict(p, e) = "pending"} = {}
        /\ OneRemote /\ Nulled(p, {f}, nulls) = {}
    BY <1>3, <2>1, NothingPending
  <2>3. /\ Checks(p, {f}, nulls, k)
        /\ Nulled(p, {f}, nulls) = {} =>
             /\ k.errorList = p.errorList \cup ErrorsOf(p, {f})
             /\ k.toHide = p.toHide \ {e \in {f} : Verdict(p, e) = "pending"}
             /\ k.toShow = p.toShow /\ k.shown = p.shown /\ k.highlighted = p.highlighted
    <3> HIDE DEF k
    <3> QED
      BY <1>3, <2>1, <2>2, CheckFacts DEF k
  <2>4. ErrorsOf(p, {f}) \subseteq {f}
    BY DEF ErrorsOf
  <2> HIDE DEF k
  <2>5. k \in Validator /\ k.pendingRequest = Cardinality(k.pending)
    BY <2>3 DEF Checks
  <2> QED
    BY <1>3, <2>2, <2>3, <2>4, <2>5
<1> HIDE DEF k
<1>5. /\ c \in Validator /\ c.pendingRequest = Cardinality(c.pending)
      /\ c.errorList \subseteq {f} /\ c.toShow = {} /\ c.toHide = {f}
      /\ c.shown = p.shown /\ c.highlighted = p.highlighted /\ c.currentElements = {f}
  BY <1>4 DEF Validator
<1> HIDE DEF c
<1>6. invalid \in SUBSET Fields
  BY <1>5 DEF Validator
<1>7. /\ (IF invalid = {} THEN c.toHide \cup {Box} ELSE c.toHide) \in SUBSET Labels
      /\ (IF invalid = {} THEN c.toHide \cup {Box} ELSE c.toHide) \cap Fields = {f}
  BY <1>5, BoxIsNoField DEF Labels
<1> HIDE DEF invalid
<1>8. /\ d \in Validator /\ d.pendingRequest = Cardinality(d.pending)
      /\ d.toShow = {} /\ d.currentElements = {f}
      /\ d.errorList \subseteq {f} /\ d.toHide \cap Fields = {f}
      /\ d.shown = c.shown /\ d.highlighted = c.highlighted
  BY <1>5, <1>6, <1>7 DEF Validator
<1> HIDE DEF d
<1>9. Marked(d)
  BY <1>3, <1>5, <1>8 DEF Marked
<1> QED
  BY <1>1, <1>8, <1>9, ShowMarks

LEMMA MarksNext ==
  ASSUME Remote = {}, ValidInv, MarkedAsLabelled, [ValidateNext]_vvars PROVE MarkedAsLabelled'
<1>1. ValueType /\ Marked(v)
  BY DEF ValidInv, Asking, MarkedAsLabelled, Marked
<1>2. requests = {}
  BY DEF ValidInv, Account, LastAsked
<1>3. ASSUME Marked(v') PROVE MarkedAsLabelled'
  BY <1>3 DEF Marked, MarkedAsLabelled
<1>4. ASSUME NEW e \in Fields, onkeyup(e) \/ onfocusout(e) PROVE MarkedAsLabelled'
  <2>1. PICK nulls \in Answering(requests) : v' = Element(v, e, nulls)
    BY <1>4 DEF onkeyup, onfocusout, Checked
  <2> QED
    BY <1>1, <1>3, <2>1, ElementMarks
<1>5. CASE submit
  <2>1. PICK cancel \in {FALSE} \cup {Cancels}, nulls \in Answering(requests) :
          v' = SubmitForm([v EXCEPT !.cancelSubmit = cancel], nulls)
    BY <1>5 DEF submit
  <2> DEFINE w == [v EXCEPT !.cancelSubmit = cancel]
             f == Form(w, nulls)
  <2>2. Marked(w) /\ w.cancelSubmit = cancel /\ cancel \in BOOLEAN
    BY <1>1, ValidateAssumption DEF Marked, Validator
  <2> HIDE DEF w
  <2>3. Marked(f)
    BY <1>1, <2>2, FormMarks
  <2>4. Marked([w EXCEPT !.cancelSubmit = FALSE])
    BY <2>2 DEF Marked, Validator
  <2> HIDE DEF f
  <2>5. Marked([f EXCEPT !.formSubmitted = TRUE])
    BY <2>3 DEF Marked, Validator
  <2>6. Marked(SubmitForm(w, nulls))
    BY <2>3, <2>4, <2>5 DEF SubmitForm, f
  <2> QED
    BY <1>3, <2>1, <2>6 DEF w
<1>6. CASE resetValidator
  <2> DEFINE p == Prepare(v, Fields \cup {Box})
  <2>1. p \in Validator
    BY <1>1, PrepareFacts DEF Marked, Labels
  <2>2. v' = [p EXCEPT !.submitted = {}, !.shown = {}, !.highlighted = {}]
    BY <1>6 DEF resetValidator
  <2> HIDE DEF p
  <2>3. v'.shown = {} /\ v'.highlighted = {}
    BY <2>1, <2>2 DEF Validator
  <2> QED
    BY <2>3 DEF MarkedAsLabelled
<1>7. CASE success
  BY <1>2, <1>7 DEF success
<1>8. CASE fail \/ UNCHANGED vvars \/ \E e \in Fields : write(e)
  <2>1. v' = v
    BY <1>8 DEF fail, vvars, write
  <2> QED
    BY <2>1 DEF MarkedAsLabelled
<1> QED
  BY <1>4, <1>5, <1>6, <1>7, <1>8 DEF ValidateNext

\* In a form whose rules the page checks by itself, a field is marked exactly when its label is
\* shown, whatever was checked, submitted and reset before (defaultShowErrors, element, form).
THEOREM AlwaysMarkedAsLabelled == Remote = {} => (ValidateSpec => []MarkedAsLabelled)
<1> SUFFICES ASSUME Remote = {} PROVE ValidateSpec => []MarkedAsLabelled
  OBVIOUS
<1>1. ValidateInit => MarkedAsLabelled
  <2>1. Fresh.highlighted = {} /\ Fresh.shown = {}
    BY DEF Fresh
  <2> QED
    BY <2>1 DEF ValidateInit, MarkedAsLabelled
<1>2. ValidInv /\ MarkedAsLabelled /\ [ValidateNext]_vvars => MarkedAsLabelled'
  BY MarksNext
<1>3. NoneLost
  BY DEF NoneLost, OneRemote
<1>4. ValidateSpec => []ValidInv
  BY <1>3, ValidInvAlways
<1> QED
  BY <1>1, <1>2, <1>4, PTL DEF ValidateSpec

LEMMA ValidTypes == ASSUME ValidInv PROVE ValidateTypeOK
<1>1. value \in [Fields -> FieldValues]
  BY DEF ValidInv, ValueType
<1>2. /\ v \in Validator /\ v.pending \subseteq Remote /\ v.pendingRequest = Cardinality(v.pending)
      /\ \A e \in v.pending : v.old[e] # ""
      /\ v.toHide \cap v.toShow = {}
  BY DEF ValidInv, Asking, Validator
<1>3. v.old \in [Remote -> {"", "taken", "good"}] /\ v.shown \subseteq Labels
  BY <1>2 DEF Validator
<1>4. requests \subseteq Remote \X {"taken", "good"}
  <2>1. \A e \in Remote : v.old[e] # "" => v.old[e] \in {"taken", "good"}
    BY <1>3
  <2>2. \A r \in requests : \E e \in Remote : v.old[e] # "" /\ r = <<e, v.old[e]>>
    BY DEF ValidInv, Account, LastAsked
  <2>3. ASSUME NEW r \in requests PROVE r \in Remote \X {"taken", "good"}
    <3>1. PICK e \in Remote : v.old[e] # "" /\ r = <<e, v.old[e]>>
      BY <2>2
    <3>2. v.old[e] \in {"taken", "good"}
      BY <2>1, <3>1
    <3> QED
      BY <3>1, <3>2
  <2> QED
    BY <2>3
<1>5. v.pendingRequest \in 0..Cardinality(Remote)
  <2>1. IsFiniteSet(Remote) /\ IsFiniteSet(v.pending)
    BY <1>2, PartOfRemote
  <2>2. Cardinality(v.pending) <= Cardinality(Remote)
    BY <1>2, <2>1, FS_Subset
  <2>3. Cardinality(v.pending) \in Nat /\ Cardinality(Remote) \in Nat
    BY <2>1, FS_CardinalityType
  <2>4. \A n, k \in Nat : n <= k => n \in 0..k
    OBVIOUS
  <2>5. Cardinality(v.pending) \in 0..Cardinality(Remote)
    BY <2>2, <2>3, <2>4
  <2> QED
    BY <1>2, <2>5
<1> QED
  BY <1>1, <1>2, <1>3, <1>4, <1>5 DEF ValidateTypeOK

\* The types of the validator's state; at most one request for each field that asks is counted,
\* and no label is both to show and to hide (startRequest, showErrors).
THEOREM ValidateTypesAlways == NoneLost => (ValidateSpec => []ValidateTypeOK)
<1> SUFFICES ASSUME NoneLost PROVE ValidateSpec => []ValidateTypeOK
  OBVIOUS
<1>1. ValidInv => ValidateTypeOK
  BY ValidTypes
<1>2. ValidateSpec => []ValidInv
  BY ValidInvAlways
<1> QED
  BY <1>1, <1>2, PTL

--------------------------------------------------------------------------------
(* The fields of a form (FormFields).                                                *)

(* Sequences that are put after each other.                                        *)

\* A sequence that takes the place of an empty one makes the whole longer by its length.
LEMMA FlattenExcept ==
  ASSUME NEW T
  PROVE  \A ss \in Seq(Seq(T)) : \A k \in DOMAIN ss, x \in Seq(T) :
           ss[k] = <<>> =>
             Len(FlattenSeq([ss EXCEPT ![k] = x])) = Len(FlattenSeq(ss)) + Len(x)
<1> DEFINE Longer(ss) ==
             \A k \in DOMAIN ss, x \in Seq(T) :
               ss[k] = <<>> =>
                 Len(FlattenSeq([ss EXCEPT ![k] = x])) = Len(FlattenSeq(ss)) + Len(x)
           P == {ss \in Seq(Seq(T)) : Longer(ss)}
<1>1. <<>> \in P
  BY EmptySeq
<1>2. ASSUME NEW ss \in Seq(Seq(T)), NEW s \in Seq(T), ss \in P PROVE Append(ss, s) \in P
  <2> DEFINE n == Len(ss)
             tt == Append(ss, s)
  <2>1. /\ tt \in Seq(Seq(T)) /\ n \in Nat /\ DOMAIN ss = 1..n /\ Len(tt) = n + 1
        /\ DOMAIN tt = 1..n + 1 /\ tt[n + 1] = s /\ \A i \in 1..n : tt[i] = ss[i]
    BY AppendProperties, LenProperties
  <2>2. FlattenSeq(tt) = FlattenSeq(ss) \o s /\ FlattenSeq(ss) \in Seq(T)
    BY FlattenAppend, FlattenType
  <2>3. Len(FlattenSeq(tt)) = Len(FlattenSeq(ss)) + Len(s)
    BY <2>2, ConcatProperties
  <2>4. ASSUME NEW k \in DOMAIN tt, NEW x \in Seq(T), tt[k] = <<>>
        PROVE  Len(FlattenSeq([tt EXCEPT ![k] = x])) = Len(FlattenSeq(tt)) + Len(x)
    <3> DEFINE vv == [tt EXCEPT ![k] = x]
    <3>1. /\ vv \in Seq(Seq(T)) /\ Len(vv) = n + 1
          /\ \A i \in 1..n + 1 : vv[i] = IF i = k THEN x ELSE tt[i]
      <4> HIDE DEF tt, n
      <4>1. k \in 1..Len(tt)
        BY <2>1
      <4>2. vv \in Seq(Seq(T)) /\ Len(vv) = Len(tt)
        BY <2>1, <4>1, ExceptSeq
      <4>3. tt \in [1..n + 1 -> Seq(T)]
        BY <2>1, LenProperties
      <4>4. QED
        BY <2>1, <4>2, <4>3
    <3>2. Len(FlattenSeq(ss)) \in Nat /\ Len(x) \in Nat /\ Len(s) \in Nat
      BY <2>2, LenProperties
    <3>3. CASE k = n + 1
      <4>1. s = <<>> /\ Len(s) = 0
        BY <2>1, <2>4, <3>3, EmptySeq
      <4>2. vv = Append(ss, x)
        <5> DEFINE ww == Append(ss, x)
        <5>1. /\ ww \in Seq(Seq(T)) /\ Len(ww) = n + 1 /\ ww[n + 1] = x
              /\ \A i \in 1..n : ww[i] = ss[i]
          BY AppendProperties
        <5>2. \A i \in 1..n + 1 : vv[i] = ww[i]
          <6> HIDE DEF vv, ww, tt, n
          <6>1. \A i \in 1..n + 1 : i = n + 1 \/ i \in 1..n
            BY <2>1
          <6>2. QED
            BY <2>1, <3>1, <3>3, <5>1, <6>1
        <5>3. QED
          <6> HIDE DEF vv, ww
          <6>1. QED
            BY <3>1, <5>1, <5>2, SeqEqual
      <4>3. FlattenSeq(vv) = FlattenSeq(ss) \o x
        BY <4>2, FlattenAppend
      <4>4. Len(FlattenSeq(vv)) = Len(FlattenSeq(ss)) + Len(x)
        BY <2>2, <4>3, ConcatProperties
      <4>5. QED
        BY <2>3, <3>2, <4>1, <4>4
    <3>4. CASE k \in 1..n
      <4> DEFINE uu == [ss EXCEPT ![k] = x]
      <4>1. /\ uu \in Seq(Seq(T)) /\ Len(uu) = n
            /\ \A i \in 1..n : uu[i] = IF i = k THEN x ELSE ss[i]
        <5>1. uu \in Seq(Seq(T)) /\ Len(uu) = Len(ss)
          BY <3>4, ExceptSeq
        <5>2. QED
          BY <2>1, <3>4, <5>1
      <4>2. vv = Append(uu, s)
        <5> DEFINE ww == Append(uu, s)
        <5>1. /\ ww \in Seq(Seq(T)) /\ Len(ww) = n + 1 /\ ww[n + 1] = s
              /\ \A i \in 1..n : ww[i] = uu[i]
          <6> HIDE DEF uu
          <6>1. QED
            BY <4>1, AppendProperties
        <5>2. \A i \in 1..n + 1 : vv[i] = ww[i]
          <6> HIDE DEF vv, ww, tt, uu, n
          <6>1. \A i \in 1..n + 1 : i = n + 1 \/ i \in 1..n
            BY <2>1
          <6>2. n + 1 # k
            BY <2>1, <3>4
          <6>3. QED
            BY <2>1, <3>1, <3>4, <4>1, <5>1, <6>1, <6>2, ZenonT(60)
        <5>3. QED
          <6> HIDE DEF vv, ww
          <6>1. QED
            BY <3>1, <5>1, <5>2, SeqEqual
      <4>3. ss[k] = <<>>
        BY <2>1, <2>4, <3>4
      <4>4. Len(FlattenSeq(uu)) = Len(FlattenSeq(ss)) + Len(x)
        <5>1. Longer(ss) /\ k \in DOMAIN ss
          BY <1>2, <2>1, <3>4
        <5>2. QED
          BY <4>3, <5>1
      <4> HIDE DEF uu, vv, tt, n
      <4>5. FlattenSeq(vv) = FlattenSeq(uu) \o s /\ FlattenSeq(uu) \in Seq(T)
        BY <4>1, <4>2, FlattenAppend, FlattenType
      <4>6. Len(FlattenSeq(vv)) = Len(FlattenSeq(uu)) + Len(s)
        BY <4>5, ConcatProperties
      <4>7. QED
        BY <2>3, <3>2, <4>4, <4>6 DEF vv
    <3>5. QED
      BY <2>1, <3>3, <3>4
  <2>5. Longer(tt)
    <3> HIDE DEF tt
    <3>1. QED
      BY <2>4
  <2>6. QED
    BY <2>1, <2>5
<1>3. \A ss \in Seq(Seq(T)) : ss \in P
  <2> HIDE DEF P
  <2>1. QED
    BY <1>1, <1>2, SeqSetInduction
<1>4. QED
  BY <1>3

\* Sequences of records, each with its place for the name, are in the order of the names.
Named(ss) == \A i \in DOMAIN ss : \A p \in ToSet(ss[i]) : p.name = i
Ordered(s) == \A i, j \in DOMAIN s : i < j => s[i].name <= s[j].name

LEMMA FlattenOrdered ==
  ASSUME NEW T
  PROVE  \A ss \in Seq(Seq(T)) : Named(ss) => Ordered(FlattenSeq(ss))
<1> DEFINE P == {ss \in Seq(Seq(T)) : Named(ss) => Ordered(FlattenSeq(ss))}
<1>1. <<>> \in P
  <2>1. Ordered(<<>>)
    BY DEF Ordered
  <2>2. QED
    BY <2>1, FlattenEmpty, EmptySeq
<1>2. ASSUME NEW ss \in Seq(Seq(T)), NEW s \in Seq(T), ss \in P PROVE Append(ss, s) \in P
  <2> DEFINE n == Len(ss)
             tt == Append(ss, s)
             u == FlattenSeq(ss)
  <2>1. /\ tt \in Seq(Seq(T)) /\ n \in Nat /\ DOMAIN ss = 1..n
        /\ DOMAIN tt = 1..n + 1 /\ tt[n + 1] = s /\ \A i \in 1..n : tt[i] = ss[i]
    BY AppendProperties, LenProperties
  <2>2. SUFFICES ASSUME Named(tt) PROVE Ordered(FlattenSeq(tt))
    <3>1. tt \in Seq(Seq(T))
      BY <2>1
    <3>2. QED
      BY <3>1, Zenon
  <2>3. Named(ss) /\ \A p \in ToSet(s) : p.name = n + 1
    <3> HIDE DEF tt, n
    <3>1. Named(ss)
      <4>1. ASSUME NEW i \in DOMAIN ss, NEW p \in ToSet(ss[i])
            PROVE  p.name = i
        <5>1. i \in DOMAIN tt /\ tt[i] = ss[i]
          BY <2>1, <4>1
        <5>2. QED
          BY <2>2, <4>1, <5>1, Zenon DEF Named
      <4>2. QED
        BY <4>1, Zenon DEF Named
    <3>2. n + 1 \in DOMAIN tt
      BY <2>1
    <3>3. QED
      BY <2>1, <2>2, <3>1, <3>2 DEF Named
  <2>4. Ordered(u) /\ u \in Seq(T) /\ FlattenSeq(tt) = u \o s
    BY <1>2, <2>3, FlattenType, FlattenAppend
  <2>5. \A p \in ToSet(u) : p.name \in 1..n
    <3>1. ToSet(u) = UNION {ToSet(ss[i]) : i \in DOMAIN ss}
      BY FlattenRange
    <3> HIDE DEF u, n
    <3>2. QED
      BY <2>1, <2>3, <3>1 DEF Named
  <2>6. /\ Len(u) \in Nat /\ Len(s) \in Nat /\ DOMAIN u = 1..Len(u) /\ DOMAIN s = 1..Len(s)
        /\ DOMAIN (u \o s) = 1..Len(u) + Len(s)
        /\ \A i \in 1..Len(u) + Len(s) :
             (u \o s)[i] = IF i <= Len(u) THEN u[i] ELSE s[i - Len(u)]
    <3> HIDE DEF u
    <3>1. u \o s \in Seq(T) /\ Len(u \o s) = Len(u) + Len(s)
      BY <2>4, ConcatProperties
    <3>2. QED
      BY <2>4, <3>1, ConcatProperties, LenProperties
  <2>7. \A i \in DOMAIN u : u[i].name \in 1..n
    BY <2>5 DEF ToSet
  <2>8. \A i \in DOMAIN s : s[i].name = n + 1
    BY <2>3 DEF ToSet
  <2>9. ASSUME NEW i \in DOMAIN (u \o s), NEW j \in DOMAIN (u \o s), i < j
        PROVE  (u \o s)[i].name <= (u \o s)[j].name
    <3> DEFINE m == Len(u)
               w == u \o s
    <3>1. m \in Nat /\ i \in 1..m + Len(s) /\ j \in 1..m + Len(s) /\ n \in Nat
      BY <2>1, <2>6
    <3> HIDE DEF m, w, u, n
    <3>2. CASE j <= m
      <4>1. i \in DOMAIN u /\ j \in DOMAIN u /\ w[i] = u[i] /\ w[j] = u[j]
        BY <2>6, <2>9, <3>1, <3>2 DEF m, w
      <4>2. QED
        BY <2>4, <2>9, <4>1 DEF Ordered, w
    <3>3. CASE ~ (j <= m)
      <4>1. j - m \in DOMAIN s /\ w[j] = s[j - m]
        BY <2>6, <3>1, <3>3 DEF m, w
      <4>2. w[j].name = n + 1
        BY <2>8, <4>1
      <4>3. CASE i <= m
        <5>1. i \in DOMAIN u /\ w[i] = u[i]
          BY <2>6, <3>1, <4>3 DEF m, w
        <5>2. w[i].name \in 1..n
          BY <2>7, <5>1
        <5>3. QED
          BY <3>1, <4>2, <5>2 DEF w
      <4>4. CASE ~ (i <= m)
        <5>1. i - m \in DOMAIN s /\ w[i] = s[i - m]
          BY <2>6, <3>1, <4>4 DEF m, w
        <5>2. w[i].name = n + 1
          BY <2>8, <5>1
        <5>3. QED
          BY <3>1, <4>2, <5>2 DEF w
      <4>5. QED
        BY <4>3, <4>4
    <3>4. QED
      BY <3>2, <3>3
  <2>10. QED
    BY <2>4, <2>9 DEF Ordered
<1>3. \A ss \in Seq(Seq(T)) : ss \in P
  <2> HIDE DEF P
  <2>1. QED
    BY <1>1, <1>2, SeqSetInduction
<1>4. QED
  BY <1>3
--------------------------------------------------------------------------------
(* What a field adds.                                                              *)

\* Any order of a finite set has as many members.
LEMMA SetToSeqType ==
  ASSUME NEW S, IsFiniteSet(S)
  PROVE  SetToSeq(S) \in Seq(S) /\ (SetToSeq(S) = <<>> <=> S = {})
<1> DEFINE n == Cardinality(S)
<1>1. n \in Nat /\ (n = 0 <=> S = {}) /\ ExistsBijection(1..n, S)
  BY FS_CardinalityType, FS_EmptySet
<1>2. \E f \in [1..n -> S] : IsInjective(f)
  BY <1>1 DEF ExistsBijection, Bijection, Injection
<1>3. SetToSeq(S) \in [1..n -> S]
  BY <1>2 DEF SetToSeq
<1>4. SetToSeq(S) \in Seq(S) /\ Len(SetToSeq(S)) = n
  <2> DEFINE s == SetToSeq(S)
  <2>1. s \in [1..n -> S]
    BY <1>3
  <2> HIDE DEF s, n
  <2>2. s \in Seq(S) /\ Len(s) = n
    BY <1>1, <2>1
  <2>3. QED
    BY <2>2 DEF s
<1>5. QED
  BY <1>1, <1>4, EmptySeq

Data == Values \cup {"", "x", "y"}
Pair == [name : 1..Size, value : Data]

\* What a field i adds: pairs of its name, some if it is successful.
Adds(pairs, i) ==
  /\ pairs \in Seq(Pair)
  /\ \A p \in ToSet(pairs) : p.name = i
  /\ pairs # <<>> <=> Successful(i)

LEMMA PairsType ==
  ASSUME NEW i \in 1..Size, NEW values \in Seq(Data)
  PROVE  /\ Pairs(i, values) \in Seq(Pair)
         /\ \A p \in ToSet(Pairs(i, values)) : p.name = i
         /\ Pairs(i, values) = <<>> <=> values = <<>>
<1> DEFINE n == Len(values)
           s == Pairs(i, values)
<1>1. n \in Nat /\ DOMAIN values = 1..n /\ \A j \in 1..n : values[j] \in Data
  BY LenProperties, ElementOfSeq
<1>2. \A j \in 1..n : [name |-> i, value |-> values[j]] \in Pair
  BY <1>1 DEF Pair
<1>3. s = [j \in 1..n |-> [name |-> i, value |-> values[j]]]
  BY <1>1 DEF Pairs
<1>4. s \in Seq(Pair)
  BY <1>1, <1>2, <1>3, IsASeq
<1>5. DOMAIN s = 1..n /\ \A j \in 1..n : s[j].name = i
  BY <1>3
<1>6. Len(s) = n
  <2> HIDE DEF s, n
  <2>1. QED
    BY <1>1, <1>4, <1>5, LenProperties
<1>7. \A p \in ToSet(s) : p.name = i
  <2> HIDE DEF s, n
  <2>1. QED
    BY <1>5 DEF ToSet
<1>8. s = <<>> <=> values = <<>>
  <2>1. s = <<>> <=> Len(s) = 0
    BY <1>4, EmptySeq
  <2>2. values = <<>> <=> Len(values) = 0
    BY EmptySeq
  <2>3. QED
    BY <1>6, <2>1, <2>2
<1>9. QED
  BY <1>4, <1>7, <1>8

LEMMA FieldAdds ==
  ASSUME FieldsTypeOK, NEW i \in 1..Size, ~ IsImage(i)
  PROVE  Adds(Pairs(i, fieldValue(i, clk)), i)
<1> DEFINE f == fields[i]
           Out == \/ f.disabled
                  \/ f.type = "reset"
                  \/ f.type = "checkbox" /\ ~ f.checked
                  \/ f.type \in Buttons /\ clk # i
<1>1. /\ f \in Control /\ f.chosen \subseteq Values /\ f.value \in Data /\ f.type # "image"
      /\ fieldValue(i, clk) = IF Out THEN <<>>
                              ELSE IF f.type \in Selects THEN SetToSeq(f.chosen) ELSE <<f.value>>
  BY DEF FieldsTypeOK, Control, Data, IsImage, fieldValue
<1>2. fieldValue(i, clk) \in Seq(Data) /\ (fieldValue(i, clk) # <<>> <=> Successful(i))
  <2>1. CASE Out
    <3>1. ~ Successful(i)
      BY <2>1 DEF Successful, Buttons, Selects
    <3>2. fieldValue(i, clk) = <<>>
      BY <1>1, <2>1
    <3>3. QED
      BY <3>1, <3>2, EmptySeq
  <2>2. CASE ~ Out /\ f.type \in Selects
    <3>1. Successful(i) <=> f.chosen # {}
      BY <2>2 DEF Successful, Buttons, Selects
    <3>2. IsFiniteSet(f.chosen)
      BY <1>1, FieldsAssumption, FS_Subset
    <3>3. SetToSeq(f.chosen) \in Seq(f.chosen) /\ (SetToSeq(f.chosen) = <<>> <=> f.chosen = {})
      BY <3>2, SetToSeqType
    <3>4. f.chosen \subseteq Data
      BY <1>1 DEF Data
    <3>5. SetToSeq(f.chosen) \in Seq(Data)
      BY <3>3, <3>4, SeqMonotonic
    <3>6. fieldValue(i, clk) = SetToSeq(f.chosen)
      BY <1>1, <2>2
    <3>7. QED
      BY <3>1, <3>3, <3>5, <3>6
  <2>3. CASE ~ Out /\ f.type \notin Selects
    <3>1. Successful(i)
      BY <2>3 DEF Successful, Buttons, Selects
    <3>2. fieldValue(i, clk) = <<f.value>>
      BY <1>1, <2>3
    <3>3. <<f.value>> \in Seq(Data) /\ <<f.value>> # <<>>
      BY <1>1
    <3>4. QED
      BY <3>1, <3>2, <3>3
  <2>4. QED
    BY <2>1, <2>2, <2>3
<1>3. QED
  BY <1>2, PairsType DEF Adds

LEMMA ImageAdds ==
  ASSUME FieldsTypeOK, NEW i \in 1..Size, IsImage(i)
  PROVE  Adds(Coordinates(i, clk), i)
<1>1. Successful(i) <=> ~ fields[i].disabled /\ clk = i
  <2>1. fields[i].type \in Buttons
    BY DEF Buttons, IsImage
  <2>2. (CASE fields[i].type \in Buttons -> clk = i
           [] fields[i].type = "checkbox" -> fields[i].checked
           [] fields[i].type \in Selects -> fields[i].chosen # {}
           [] OTHER -> fields[i].type # "reset") <=> clk = i
    BY <2>1 DEF Buttons, Selects
  <2>3. QED
    BY <2>2, Zenon DEF Successful
<1>2. CASE clk = i /\ ~ fields[i].disabled
  <2> DEFINE xy == <<"x", "y">>
  <2>1. xy \in Seq(Data) /\ xy # <<>>
    BY DEF Data
  <2>2. Coordinates(i, clk) = Pairs(i, xy)
    BY <1>2 DEF Coordinates
  <2> HIDE DEF xy
  <2>3. QED
    BY <1>1, <1>2, <2>1, <2>2, PairsType DEF Adds
<1>3. CASE ~ (clk = i /\ ~ fields[i].disabled)
  <2>1. Coordinates(i, clk) = <<>>
    BY <1>3 DEF Coordinates
  <2>2. ToSet(<<>>) = {} /\ <<>> \in Seq(Pair)
    BY ToSetEmpty, EmptySeq
  <2>3. QED
    BY <1>1, <1>3, <2>1, <2>2 DEF Adds
<1>4. QED
  BY <1>2, <1>3

--------------------------------------------------------------------------------
(* What all of them add, in either order.                                          *)

InElements == [i \in 1..Size |-> IF IsImage(i) THEN <<>> ELSE Pairs(i, fieldValue(i, clk))]
InPage == [i \in 1..Size |-> IF IsImage(i) THEN Coordinates(i, clk)
                             ELSE Pairs(i, fieldValue(i, clk))]
Clicked == IF clk # None /\ IsImage(clk) THEN Coordinates(clk, clk) ELSE <<>>

LEMMA BothOrders ==
  ASSUME FieldsTypeOK
  PROVE  /\ formToArray(TRUE, clk) = FlattenSeq(InPage)
         /\ formToArray(FALSE, clk) = FlattenSeq(InElements) \o Clicked
         /\ InPage \in Seq(Seq(Pair)) /\ InElements \in Seq(Seq(Pair)) /\ Clicked \in Seq(Pair)
         /\ DOMAIN InPage = 1..Size /\ DOMAIN InElements = 1..Size
         /\ \A i \in 1..Size : Adds(InPage[i], i)
<1>1. DOMAIN fields = 1..Size /\ Size \in Nat
  BY FieldsAssumption DEF FieldsTypeOK
<1>2. /\ formToArray(TRUE, clk) = FlattenSeq(InPage)
      /\ formToArray(FALSE, clk) = FlattenSeq(InElements) \o Clicked
  BY <1>1 DEF formToArray, InPage, InElements, Clicked
<1>3. \A i \in 1..Size : Adds(InPage[i], i)
  BY FieldAdds, ImageAdds DEF InPage
<1>4. DOMAIN InPage = 1..Size /\ DOMAIN InElements = 1..Size
  BY DEF InPage, InElements
<1>5. \A i \in 1..Size : InPage[i] \in Seq(Pair) /\ InElements[i] \in Seq(Pair)
  <2>1. \A i \in 1..Size : InElements[i] = <<>> \/ InElements[i] = InPage[i]
    BY DEF InPage, InElements
  <2>2. QED
    BY <1>3, <2>1, EmptySeq DEF Adds
<1>6. InPage \in Seq(Seq(Pair)) /\ InElements \in Seq(Seq(Pair))
  <2>1. InPage \in [1..Size -> Seq(Pair)] /\ InElements \in [1..Size -> Seq(Pair)]
    BY <1>5 DEF InPage, InElements
  <2>2. QED
    BY <1>1, <2>1
<1>7. Clicked \in Seq(Pair)
  <2>1. CASE clk # None /\ IsImage(clk)
    <3>1. clk \in 1..Size
      BY <2>1 DEF FieldsTypeOK
    <3>2. Clicked = Coordinates(clk, clk)
      BY <2>1 DEF Clicked
    <3>3. QED
      BY <2>1, <3>1, <3>2, ImageAdds DEF Adds
  <2>2. CASE ~ (clk # None /\ IsImage(clk))
    BY <2>2, EmptySeq DEF Clicked
  <2>3. QED
    BY <2>1, <2>2
<1>8. QED
  BY <1>2, <1>3, <1>4, <1>6, <1>7

\* The two orders differ in where the pairs of the image are that was clicked.
LEMMA SamePairs ==
  ASSUME FieldsTypeOK
  PROVE  /\ Len(FlattenSeq(InPage)) = Len(FlattenSeq(InElements) \o Clicked)
         /\ ToSet(FlattenSeq(InPage)) = ToSet(FlattenSeq(InElements) \o Clicked)
<1>1. /\ InPage \in Seq(Seq(Pair)) /\ InElements \in Seq(Seq(Pair)) /\ Clicked \in Seq(Pair)
      /\ DOMAIN InPage = 1..Size /\ DOMAIN InElements = 1..Size
  BY BothOrders
<1>2. FlattenSeq(InElements) \in Seq(Pair)
  BY <1>1, FlattenType
<1>3. /\ Len(FlattenSeq(InElements) \o Clicked) = Len(FlattenSeq(InElements)) + Len(Clicked)
      /\ ToSet(FlattenSeq(InElements) \o Clicked) = ToSet(FlattenSeq(InElements)) \cup ToSet(Clicked)
  BY <1>1, <1>2, ConcatProperties, ToSetConcat
<1>4. CASE clk # None /\ IsImage(clk)
  <2>1. clk \in 1..Size /\ Clicked = Coordinates(clk, clk)
    BY <1>4 DEF FieldsTypeOK, Clicked
  <2>2. InElements[clk] = <<>> /\ InPage[clk] = Clicked
    BY <1>4, <2>1 DEF InElements, InPage
  <2>3. \A i \in 1..Size : i # clk => InPage[i] = InElements[i]
    BY DEF InElements, InPage, Coordinates
  <2>4. InPage = [InElements EXCEPT ![clk] = Clicked]
    <3>1. InPage = [i \in 1..Size |-> InPage[i]] /\ InElements = [i \in 1..Size |-> InElements[i]]
      BY DEF InPage, InElements
    <3>2. QED
      BY <2>1, <2>2, <2>3, <3>1
  <2>5. Len(FlattenSeq(InPage)) = Len(FlattenSeq(InElements)) + Len(Clicked)
    <3>1. clk \in DOMAIN InElements
      BY <1>1, <2>1
    <3>2. Len(FlattenSeq([InElements EXCEPT ![clk] = Clicked])) = Len(FlattenSeq(InElements)) + Len(Clicked)
      BY <1>1, <2>2, <3>1, FlattenExcept
    <3>3. QED
      BY <2>4, <3>2
  <2>6. /\ ToSet(FlattenSeq(InPage)) = UNION {ToSet(InPage[i]) : i \in 1..Size}
        /\ ToSet(FlattenSeq(InElements)) = UNION {ToSet(InElements[i]) : i \in 1..Size}
    BY <1>1, FlattenRange
  <2>7. ToSet(InElements[clk]) = {}
    BY <2>2, ToSetEmpty
  <2>8. ToSet(FlattenSeq(InPage)) = ToSet(FlattenSeq(InElements)) \cup ToSet(Clicked)
    <3>1. \A i \in 1..Size : i # clk => ToSet(InPage[i]) = ToSet(InElements[i])
      BY <2>3
    <3>2. ToSet(InPage[clk]) = ToSet(Clicked)
      BY <2>2
    <3>3. \A p : (\E i \in 1..Size : p \in ToSet(InPage[i])) <=>
                 (\E i \in 1..Size : p \in ToSet(InElements[i])) \/ p \in ToSet(Clicked)
      BY <2>1, <2>7, <3>1, <3>2
    <3>4. QED
      BY <2>6, <3>3
  <2>9. QED
    BY <1>3, <2>5, <2>8
<1>5. CASE ~ (clk # None /\ IsImage(clk))
  <2>1. Clicked = <<>>
    BY <1>5 DEF Clicked
  <2>2. \A i \in 1..Size : InPage[i] = InElements[i]
    <3>1. \A i \in 1..Size : IsImage(i) => clk # i
      BY <1>5, FieldsAssumption
    <3>2. QED
      BY <3>1 DEF InPage, InElements, Coordinates
  <2>3. InPage = InElements
    BY <2>2 DEF InPage, InElements
  <2>4. FlattenSeq(InElements) \o <<>> = FlattenSeq(InElements)
    BY <1>2, ConcatEmptySeq
  <2>5. QED
    BY <2>1, <2>3, <2>4
<1>6. QED
  BY <1>4, <1>5

\* Whatever is in the fields and whichever button was pressed.
LEMMA PairsAlways == FieldsTypeOK => FormPairs
<1> SUFFICES ASSUME FieldsTypeOK PROVE FormPairs
  OBVIOUS
<1> DEFINE a == FlattenSeq(InPage)
           b == FlattenSeq(InElements) \o Clicked
<1>1. formToArray(TRUE, clk) = a /\ formToArray(FALSE, clk) = b
  BY BothOrders
<1>2. /\ InPage \in Seq(Seq(Pair)) /\ DOMAIN InPage = 1..Size
      /\ \A i \in 1..Size : Adds(InPage[i], i)
  BY BothOrders
<1>3. OnlySuccessful(a)
  <2>1. ToSet(a) = UNION {ToSet(InPage[i]) : i \in 1..Size}
    BY <1>2, FlattenRange
  <2>2. \A i \in 1..Size : \A p \in ToSet(InPage[i]) : p.name = i
    BY <1>2 DEF Adds
  <2>3. \A i \in 1..Size : ToSet(InPage[i]) # {} <=> Successful(i)
    <3>1. ASSUME NEW i \in 1..Size PROVE ToSet(InPage[i]) # {} <=> InPage[i] # <<>>
      <4> DEFINE s == InPage[i]
      <4>1. s \in Seq(Pair)
        BY <1>2 DEF Adds
      <4> HIDE DEF s
      <4>2. s # <<>> => 1 \in DOMAIN s
        BY <4>1
      <4>3. s # <<>> => s[1] \in ToSet(s)
        BY <4>2 DEF ToSet
      <4>4. QED
        BY <4>3, ToSetEmpty DEF s
    <3>2. QED
      BY <1>2, <3>1 DEF Adds
  <2>4. \A i : i \in {p.name : p \in ToSet(a)} <=> \E j \in 1..Size : \E p \in ToSet(InPage[j]) : p.name = i
    <3> HIDE DEF a
    <3>1. QED
      BY <2>1
  <2>5. \A i : i \in {p.name : p \in ToSet(a)} <=> i \in 1..Size /\ Successful(i)
    <3> HIDE DEF a
    <3>1. QED
      BY <2>2, <2>3, <2>4
  <2>6. DOMAIN fields = 1..Size
    BY DEF FieldsTypeOK
  <2>7. QED
    <3> HIDE DEF a
    <3>1. QED
      BY <2>5, <2>6 DEF OnlySuccessful
<1>4. SemanticOrder(a, b)
  <2>1. Named(InPage)
    BY <1>2 DEF Named, Adds
  <2>2. Ordered(a)
    BY <1>2, <2>1, FlattenOrdered
  <2>3. QED
    BY <2>2, SamePairs DEF SemanticOrder, Ordered
<1>5. QED
  BY <1>1, <1>3, <1>4 DEF FormPairs
--------------------------------------------------------------------------------
(* The fields keep their types, whatever the user and the page do.                 *)

LEMMA FieldsInit == FormInit => FieldsTypeOK
<1> SUFFICES ASSUME FormInit PROVE FieldsTypeOK
  OBVIOUS
<1>1. \A type \in Types : Field(type) \subseteq Control
  BY DEF Field, Control
<1>2. fields \in [1..Size -> UNION {Field(type) : type \in Types}]
  BY DEF FormInit, Forms
<1>3. fields \in [1..Size -> Control]
  BY <1>1, <1>2
<1>4. QED
  BY <1>3 DEF FormInit, FieldsTypeOK

LEMMA ClearedType ==
  ASSUME FieldsTypeOK
  PROVE  Cleared \in [1..Size -> Control]
<1>1. ASSUME NEW i \in 1..Size
      PROVE  (LET f == fields[i]
              IN CASE f.type = "text" -> [f EXCEPT !.value = ""]
                   [] f.type = "checkbox" -> [f EXCEPT !.checked = FALSE]
                   [] f.type \in Selects -> [f EXCEPT !.chosen = {}]
                   [] OTHER -> f) \in Control
  <2> DEFINE f == fields[i]
  <2>1. f \in Control
    BY DEF FieldsTypeOK
  <2>2. [f EXCEPT !.value = ""] \in Control
    BY <2>1 DEF Control
  <2>3. [f EXCEPT !.checked = FALSE] \in Control
    BY <2>1 DEF Control
  <2>4. [f EXCEPT !.chosen = {}] \in Control
    BY <2>1 DEF Control
  <2>5. QED
    BY <2>1, <2>2, <2>3, <2>4
<1>2. DOMAIN fields = 1..Size
  BY DEF FieldsTypeOK
<1>3. QED
  BY <1>1, <1>2 DEF Cleared

LEMMA EditedType ==
  ASSUME FieldsTypeOK, edit
  PROVE  fields' \in [1..Size -> Control]
<1>1. DOMAIN fields = 1..Size /\ fields \in [1..Size -> Control]
  BY DEF FieldsTypeOK
<1>2. PICK i \in 1..Size :
        \E f \in Field(fields[i].type) \cup {[fields[i] EXCEPT !.value = x] : x \in Values} :
          fields' = [fields EXCEPT ![i] = f]
  BY <1>1 DEF edit
<1>3. PICK f \in Field(fields[i].type) \cup {[fields[i] EXCEPT !.value = x] : x \in Values} :
        fields' = [fields EXCEPT ![i] = f]
  BY <1>2
<1>4. fields[i] \in Control
  BY <1>1
<1>5. f \in Control
  <2>1. CASE f \in Field(fields[i].type)
    BY <1>4, <2>1 DEF Field, Control
  <2>2. CASE f \in {[fields[i] EXCEPT !.value = x] : x \in Values}
    BY <1>4, <2>2 DEF Control
  <2>3. QED
    BY <2>1, <2>2
<1>6. QED
  BY <1>1, <1>3, <1>5

LEMMA FieldsStep ==
  ASSUME FieldsTypeOK, FormNext
  PROVE  FieldsTypeOK'
<1>1. CASE edit
  <2>1. UNCHANGED <<clk, written>>
    BY <1>1 DEF edit
  <2>2. QED
    BY <1>1, <2>1, EditedType DEF FieldsTypeOK, Control
<1>2. CASE press
  BY <1>2 DEF press, FieldsTypeOK, Control
<1>3. CASE forget
  BY <1>3 DEF forget, FieldsTypeOK, Control
<1>4. CASE clearForm
  BY <1>4, ClearedType DEF clearForm, FieldsTypeOK, Control
<1>5. CASE resetForm
  BY <1>5 DEF resetForm, FieldsTypeOK, Control
<1>6. QED
  BY <1>1, <1>2, <1>3, <1>4, <1>5 DEF FormNext

\* The fields of a form have values of their types (clearForm, resetForm).
THEOREM FieldTypes == FormSpec => []FieldsTypeOK
<1>1. FormInit => FieldsTypeOK
  BY FieldsInit
<1>2. FieldsTypeOK /\ [FormNext]_fvars => FieldsTypeOK'
  <2>1. FieldsTypeOK /\ UNCHANGED fvars => FieldsTypeOK'
    BY DEF fvars, FieldsTypeOK, Control
  <2>2. QED
    BY <2>1, FieldsStep
<1>3. QED
  BY <1>1, <1>2, PTL DEF FormSpec

\* Whatever the user enters, presses and clears in a form of any size, formToArray gathers
\* the successful controls, in the order of the page, and the same pairs in both of its
\* orders (fieldValue, formToArray).
THEOREM PairsGathered == FormSpec => []FormPairs
<1>1. FieldsTypeOK => FormPairs
  BY PairsAlways
<1>2. QED
  BY <1>1, FieldTypes, PTL

--------------------------------------------------------------------------------
(* Its submissions (FormUpload).                                                     *)

Subs ==
  [upload : BOOLEAN, url : Seq(TypeOptions), timeout : BOOLEAN, timer : BOOLEAN, after : Afters,
   step : {"breath", "sent", "cleaned"}, invoked : BOOLEAN, answers : {0, 1},
   completes : {0, 1}]

\* The first query of a url is there for its form's sake, or as the page asks for GET.
Piled(url) == \A i \in 2..Len(url) : url[i] = "GET"

\* A callback is called by what sets invoked, and only a form that posts has an upload that
\* is about to write into its action.
SubInv(sub, m) ==
  /\ sub \in Subs
  /\ ~ sub.invoked => sub.answers = 0 /\ sub.completes = 0
  /\ sub.step = "breath" => m = "POST"
  /\ Piled(sub.url)

\* The submissions that are counted.
Pending(q) == {s \in DOMAIN q : q[s].completes = 0}

UploadInv ==
  /\ subs \in Seq(Subs)
  /\ \A s \in DOMAIN subs : SubInv(subs[s], method)
  /\ action \in Seq(TypeOptions) /\ Piled(action)
  /\ method = "GET" => action = <<>>
  /\ activeUploads = Cardinality(Pending(subs))

--------------------------------------------------------------------------------
(* The count of the submissions.                                                    *)

LEMMA PendingFinite == ASSUME NEW q \in Seq(Subs) PROVE IsFiniteSet(Pending(q))
<1>1. DOMAIN q = 1..Len(q) /\ Len(q) \in Nat
  OBVIOUS
<1>2. IsFiniteSet(1..Len(q))
  BY <1>1, FS_Interval
<1> QED
  BY <1>1, <1>2, FS_Subset DEF Pending

\* A new submission is counted.
LEMMA PendingOfAppend ==
  ASSUME NEW q \in Seq(Subs), NEW sub \in Subs, sub.completes = 0
  PROVE  Cardinality(Pending(Append(q, sub))) = Cardinality(Pending(q)) + 1
<1>1. DOMAIN q = 1..Len(q) /\ Len(q) \in Nat /\ DOMAIN Append(q, sub) = 1..(Len(q) + 1)
  OBVIOUS
<1>2. /\ Append(q, sub)[Len(q) + 1] = sub
      /\ \A s \in 1..Len(q) : Append(q, sub)[s] = q[s]
  OBVIOUS
<1>3. Pending(Append(q, sub)) = Pending(q) \cup {Len(q) + 1}
  BY <1>1, <1>2 DEF Pending
<1>4. Len(q) + 1 \notin Pending(q)
  BY <1>1 DEF Pending
<1>5. IsFiniteSet(Pending(q))
  BY PendingFinite
<1>6. Cardinality(Pending(q) \cup {Len(q) + 1}) = Cardinality(Pending(q)) + 1
  BY <1>4, <1>5, FS_AddElement
<1> QED
  BY <1>3, <1>6

\* One that completes is not counted any more.
LEMMA PendingOfDone ==
  ASSUME NEW q \in Seq(Subs), NEW s \in DOMAIN q, NEW sub \in Subs,
         q[s].completes = 0, sub.completes # 0
  PROVE  Cardinality(Pending([q EXCEPT ![s] = sub])) = Cardinality(Pending(q)) - 1
<1>1. Pending([q EXCEPT ![s] = sub]) = Pending(q) \ {s}
  BY DEF Pending
<1>2. s \in Pending(q)
  BY DEF Pending
<1> QED
  BY <1>1, <1>2, PendingFinite, FS_RemoveElement

\* Whatever else becomes of one, it is counted as before.
LEMMA PendingOfOther ==
  ASSUME NEW q \in Seq(Subs), NEW s \in DOMAIN q, NEW sub \in Subs,
         sub.completes = q[s].completes
  PROVE  Pending([q EXCEPT ![s] = sub]) = Pending(q)
BY DEF Pending

\* One submission that becomes another one, the form as it was.
LEMMA InvOfOther ==
  ASSUME UploadInv, NEW s \in DOMAIN subs, NEW sub, SubInv(sub, method),
         sub.completes = subs[s].completes,
         subs' = [subs EXCEPT ![s] = sub], UNCHANGED <<method, activeUploads>>,
         action' \in Seq(TypeOptions) /\ Piled(action') /\ (method = "GET" => action' = <<>>)
  PROVE  UploadInv'
<1>1. sub \in Subs /\ subs \in Seq(Subs)
  BY DEF SubInv, UploadInv
<1>2. subs' \in Seq(Subs) /\ DOMAIN subs' = DOMAIN subs
  BY <1>1
<1>3. \A r \in DOMAIN subs : subs'[r] = IF r = s THEN sub ELSE subs[r]
  BY <1>1
<1>4. \A r \in DOMAIN subs' : SubInv(subs'[r], method')
  BY <1>2, <1>3 DEF UploadInv
<1>5. Pending(subs') = Pending(subs)
  BY <1>1, PendingOfOther
<1>6. activeUploads' = Cardinality(Pending(subs'))
  BY <1>5 DEF UploadInv
<1> QED
  BY <1>2, <1>4, <1>6 DEF UploadInv

--------------------------------------------------------------------------------
(* A submission that begins, and one that is called back.                           *)

LEMMA SubmissionInv ==
  ASSUME UploadInv, NEW u \in BOOLEAN, NEW type \in TypeOptions, NEW timed \in BOOLEAN,
         NEW after \in Afters
  PROVE  /\ SubInv(Submission(u, type, timed, after), IF u THEN "POST" ELSE method)
         /\ Submission(u, type, timed, after).completes = 0
<1> DEFINE sub == Submission(u, type, timed, after)
<1>1. action \in Seq(TypeOptions) /\ Piled(action) /\ (method = "GET" => action = <<>>)
  BY DEF UploadInv
<1>2. sub.url = IF Gets(type) THEN Append(action, type) ELSE action
  BY DEF Submission
<1>3. sub.url \in Seq(TypeOptions)
  BY <1>1, <1>2
<1>4. Piled(sub.url)
  <2>1. CASE ~ Gets(type)
    BY <1>1, <1>2, <2>1
  <2>2. CASE Gets(type) /\ type = "GET"
    <3>1. \A i \in 2..Len(action) + 1 :
            Append(action, type)[i] = IF i = Len(action) + 1 THEN type ELSE action[i]
      BY <1>1
    <3>2. Len(Append(action, type)) = Len(action) + 1 /\ Len(action) \in Nat
      BY <1>1
    <3>3. \A i \in 2..Len(action) + 1 : i # Len(action) + 1 => i \in 2..Len(action)
      BY <3>2
    <3>4. QED
      BY <1>1, <1>2, <2>2, <3>1, <3>2, <3>3 DEF Piled
  <2>3. CASE Gets(type) /\ type # "GET"
    <3>1. action = <<>>
      BY <1>1, <2>3 DEF Gets
    <3>2. Len(Append(action, type)) = 1
      BY <3>1
    <3>3. QED
      BY <1>2, <2>3, <3>2 DEF Piled
  <2>4. QED
    BY <2>1, <2>2, <2>3
<1>5. sub \in Subs
  BY <1>2, <1>3 DEF Submission, Subs
<1> QED
  BY <1>4, <1>5 DEF SubInv, Submission

LEMMA SubmitInv == UploadInv /\ ajaxSubmit => UploadInv'
<1> SUFFICES ASSUME UploadInv, ajaxSubmit PROVE UploadInv'
  OBVIOUS
<1>1. PICK type \in TypeOptions, iframe \in IframeOptions, timed \in BOOLEAN, after \in Afters :
        /\ subs' = Append(subs, Submission(iframe \/ Chosen, type, timed, after))
        /\ method' = IF iframe \/ Chosen THEN "POST" ELSE method
  BY DEF ajaxSubmit
<1>2. PICK up \in BOOLEAN : up = (iframe \/ Chosen)
  BY UploadAssumption DEF Chosen
<1> DEFINE m == IF up THEN "POST" ELSE method
           sub == Submission(up, type, timed, after)
<1>3. SubInv(sub, m) /\ sub.completes = 0
  BY SubmissionInv
<1> HIDE DEF sub
<1>4. subs' = Append(subs, sub) /\ method' = m
  BY <1>1, <1>2 DEF sub
<1>5. sub \in Subs /\ subs \in Seq(Subs)
  BY <1>3 DEF SubInv, UploadInv
<1>6. subs' \in Seq(Subs) /\ DOMAIN subs' = 1..(Len(subs) + 1) /\ DOMAIN subs = 1..Len(subs)
  BY <1>4, <1>5
<1>7. subs'[Len(subs) + 1] = sub /\ \A s \in 1..Len(subs) : subs'[s] = subs[s]
  BY <1>4, <1>5
<1>8. activeUploads' = activeUploads + 1 /\ action' = action
  BY DEF ajaxSubmit
<1>9. \A s \in DOMAIN subs : SubInv(subs[s], m)
  BY DEF UploadInv, SubInv
<1>10. \A s \in DOMAIN subs' : SubInv(subs'[s], method')
  BY <1>3, <1>4, <1>6, <1>7, <1>9
<1>11. activeUploads' = Cardinality(Pending(subs'))
  BY <1>3, <1>4, <1>5, <1>8, PendingOfAppend DEF UploadInv
<1>12. method' = "GET" => action' = <<>>
  BY <1>4, <1>8 DEF UploadInv
<1> QED
  BY <1>6, <1>8, <1>10, <1>11, <1>12 DEF UploadInv

LEMMA DoneInv ==
  ASSUME UploadInv, NEW s \in DOMAIN subs, NEW ok \in BOOLEAN, NEW timer \in BOOLEAN,
         Done(s, ok, timer), UNCHANGED <<method, action>>
  PROVE  UploadInv'
<1> DEFINE old == subs[s]
           sub == [old EXCEPT !.invoked = TRUE, !.timer = timer,
                              !.answers = old.answers + 1, !.completes = old.completes + 1]
<1>1. /\ old \in Subs /\ ~ old.invoked /\ old.answers = 0 /\ old.completes = 0
      /\ old.step = "breath" => method = "POST"
      /\ Piled(old.url)
  BY DEF Done, UploadInv, SubInv
<1>2. subs' = [subs EXCEPT ![s] = sub]
  BY DEF Done
<1>a. activeUploads' = activeUploads - 1
  BY DEF Done
<1> HIDE DEF old
<1>b. sub = [old EXCEPT !.invoked = TRUE, !.timer = timer, !.answers = 1, !.completes = 1]
  BY <1>1
<1>3. sub \in Subs
  BY <1>1, <1>b DEF Subs
<1>4. sub.invoked /\ sub.completes = 1 /\ sub.step = old.step /\ sub.url = old.url
  BY <1>1, <1>b DEF Subs
<1> HIDE DEF sub
<1>5. SubInv(sub, method)
  BY <1>1, <1>3, <1>4 DEF SubInv
<1>6. subs \in Seq(Subs) /\ subs[s].completes = 0
  BY <1>1 DEF UploadInv, old
<1>7. subs' \in Seq(Subs) /\ DOMAIN subs' = DOMAIN subs
  BY <1>2, <1>3, <1>6
<1>8. \A r \in DOMAIN subs : subs'[r] = IF r = s THEN sub ELSE subs[r]
  BY <1>2, <1>6
<1>9. \A r \in DOMAIN subs' : SubInv(subs'[r], method')
  BY <1>5, <1>7, <1>8 DEF UploadInv
<1>10. activeUploads' = Cardinality(Pending(subs'))
  <2>1. Cardinality(Pending([subs EXCEPT ![s] = sub])) = Cardinality(Pending(subs)) - 1
    BY <1>3, <1>4, <1>6, PendingOfDone
  <2> QED
    BY <1>2, <1>a, <2>1 DEF UploadInv
<1> QED
  BY <1>7, <1>9, <1>10 DEF UploadInv

--------------------------------------------------------------------------------
(* The invariant.                                                                   *)

LEMMA UploadInvInit == UploadInit => UploadInv
<1> SUFFICES ASSUME UploadInit PROVE UploadInv
  OBVIOUS
<1>1. subs = <<>> /\ action = <<>> /\ activeUploads = 0
  BY DEF UploadInit
<1>2. Pending(subs) = {}
  BY <1>1 DEF Pending
<1>3. Cardinality(Pending(subs)) = 0
  BY <1>2, FS_EmptySet
<1>4. Piled(action)
  <2>1. Len(action) = 0
    BY <1>1
  <2>2. QED
    BY <2>1 DEF Piled
<1> QED
  BY <1>1, <1>3, <1>4 DEF UploadInv

LEMMA UploadInvNext == UploadInv /\ [UploadNext]_uvars => UploadInv'
<1> SUFFICES ASSUME UploadInv, [UploadNext]_uvars PROVE UploadInv'
  OBVIOUS
<1>s. \A s \in DOMAIN subs : SubInv(subs[s], method) /\ subs[s] \in Subs
  BY DEF UploadInv, SubInv
<1>1. CASE ajaxSubmit
  BY <1>1, SubmitInv
<1>2. CASE work \/ UNCHANGED uvars
  <2>1. UNCHANGED <<method, action, subs, activeUploads>>
    BY <1>2 DEF work, uvars
  <2> QED
    BY <2>1 DEF UploadInv
<1>3. ASSUME NEW s \in DOMAIN subs, upload(s) PROVE UploadInv'
  <2> DEFINE sub == [subs[s] EXCEPT !.step = "sent", !.timer = subs[s].timeout]
  <2>1. SubInv(sub, method) /\ sub.completes = subs[s].completes
    BY <1>s DEF SubInv, Subs
  <2>2. action' \in Seq(TypeOptions) /\ Piled(action') /\ method = "POST"
    BY <1>s, <1>3 DEF upload, SubInv, Subs
  <2>3. subs' = [subs EXCEPT ![s] = sub] /\ UNCHANGED <<method, activeUploads>>
    BY <1>3 DEF upload
  <2> QED
    BY <2>1, <2>2, <2>3, InvOfOther
<1>4. ASSUME NEW s \in DOMAIN subs, load(s) PROVE UploadInv'
  BY <1>s, <1>4, DoneInv DEF load, Subs
<1>5. ASSUME NEW s \in DOMAIN subs, timeout(s) PROVE UploadInv'
  <2>1. CASE subs[s].invoked
    <3> DEFINE sub == [subs[s] EXCEPT !.timer = FALSE]
    <3>1. SubInv(sub, method) /\ sub.completes = subs[s].completes
      BY <1>s DEF SubInv, Subs
    <3>2. subs' = [subs EXCEPT ![s] = sub] /\ UNCHANGED <<method, action, activeUploads>>
      BY <1>5, <2>1 DEF timeout
    <3> QED
      BY <3>1, <3>2, InvOfOther DEF UploadInv
  <2>2. CASE ~ subs[s].invoked
    BY <1>5, <2>2, DoneInv DEF timeout
  <2> QED
    BY <2>1, <2>2
<1>6. ASSUME NEW s \in DOMAIN subs, answer(s) PROVE UploadInv'
  BY <1>s, <1>6, DoneInv DEF answer, Subs
<1>7. ASSUME NEW s \in DOMAIN subs, successThrows(s) PROVE UploadInv'
  <2> DEFINE sub == [subs[s] EXCEPT !.invoked = TRUE, !.answers = 1]
  <2>1. SubInv(sub, method) /\ sub.completes = subs[s].completes
    BY <1>s DEF SubInv, Subs
  <2>2. subs' = [subs EXCEPT ![s] = sub] /\ UNCHANGED <<method, action, activeUploads>>
    BY <1>7 DEF successThrows
  <2> QED
    BY <2>1, <2>2, InvOfOther DEF UploadInv
<1>8. ASSUME NEW s \in DOMAIN subs, clean(s) PROVE UploadInv'
  <2> DEFINE sub == [subs[s] EXCEPT !.step = "cleaned"]
  <2>1. SubInv(sub, method) /\ sub.completes = subs[s].completes
    BY <1>s DEF SubInv, Subs
  <2>2. subs' = [subs EXCEPT ![s] = sub] /\ UNCHANGED <<method, action, activeUploads>>
    BY <1>8 DEF clean
  <2> QED
    BY <2>1, <2>2, InvOfOther DEF UploadInv
<1> QED
  BY <1>1, <1>2, <1>3, <1>4, <1>5, <1>6, <1>7, <1>8 DEF UploadNext

\* An upload is called back once, by its answer or by its timeout; what is sent is counted
\* until it is complete; and queries pile up in the url of the form only where the page asks
\* for GET: for any number of submissions of a form with any fields and options (ajaxSubmit
\* and fileUpload of jquery.form.js).
THEOREM UploadsAlwaysAnswered == UploadSpec => []UploadsAnswered
<1>1. UploadInit => UploadInv
  BY UploadInvInit
<1>2. UploadInv /\ [UploadNext]_uvars => UploadInv'
  BY UploadInvNext
<1>3. UploadInv => UploadsAnswered
  <2> SUFFICES ASSUME UploadInv PROVE UploadsAnswered
    OBVIOUS
  <2>1. CalledBackOnce
    <3>1. \A s \in DOMAIN subs : subs[s].answers \in {0, 1} /\ subs[s].completes \in {0, 1}
      BY DEF UploadInv, SubInv, Subs
    <3> QED
      BY <3>1 DEF CalledBackOnce
  <2>2. Counted
    BY DEF UploadInv, Counted, Pending
  <2>3. OneQuery
    BY DEF UploadInv, SubInv, Piled, OneQuery
  <2> QED
    BY <2>1, <2>2, <2>3 DEF UploadsAnswered
<1> QED
  BY <1>1, <1>2, <1>3, PTL DEF UploadSpec

--------------------------------------------------------------------------------
(* The types of a form and of its submissions.                                      *)

\* As many are counted as there are, at most.
LEMMA PendingBound ==
  ASSUME NEW q \in Seq(Subs)
  PROVE  Cardinality(Pending(q)) \in 0..Len(q)
<1>1. DOMAIN q = 1..Len(q) /\ Len(q) \in Nat
  OBVIOUS
<1>2. IsFiniteSet(1..Len(q)) /\ Cardinality(1..Len(q)) = Len(q)
  BY <1>1, FS_Interval
<1>3. Pending(q) \subseteq 1..Len(q)
  BY <1>1 DEF Pending
<1>4. Cardinality(Pending(q)) <= Len(q)
  BY <1>2, <1>3, FS_Subset
<1>5. Cardinality(Pending(q)) \in Nat
  BY PendingFinite, FS_CardinalityType
<1>6. QED
  BY <1>1, <1>4, <1>5

\* What the callbacks make of the fields.
LEMMA AfterSuccessType ==
  ASSUME FieldsTypeOK, NEW s \in DOMAIN subs
  PROVE  AfterSuccess(s) \in [1..Size -> Control]
BY ClearedType DEF AfterSuccess, FieldsTypeOK

\* What UploadInv leaves out: the fields, the method, and how many submissions there are.
UploadBounds ==
  /\ FieldsTypeOK
  /\ method \in {"GET", "POST"}
  /\ Len(subs) <= MaxSubmits

LEMMA BoundsInit == UploadInit => UploadBounds
<1> SUFFICES ASSUME UploadInit PROVE UploadBounds
  OBVIOUS
<1>1. FieldsTypeOK
  BY FieldsInit DEF UploadInit, FormInit
<1>2. subs = <<>> /\ method \in {"GET", "POST"}
  BY UploadAssumption DEF UploadInit
<1>3. Len(subs) = 0
  BY <1>2
<1>4. QED
  BY <1>1, <1>2, <1>3, UploadAssumption DEF UploadBounds

\* A step that submits nothing keeps the number of submissions.
LEMMA SameNumber ==
  ASSUME UploadInv, UploadInv', NEW s \in DOMAIN subs, NEW sub,
         subs' = [subs EXCEPT ![s] = sub]
  PROVE  Len(subs') = Len(subs)
<1>1. subs \in Seq(Subs) /\ subs' \in Seq(Subs)
  BY DEF UploadInv
<1>2. DOMAIN subs' = DOMAIN subs
  BY <1>1
<1>3. QED
  BY <1>1, <1>2

LEMMA SubmitBounds ==
  ASSUME UploadInv, UploadBounds, ajaxSubmit
  PROVE  UploadBounds'
<1>1. DOMAIN fields = 1..Size /\ FieldsTypeOK
  BY DEF UploadBounds, FieldsTypeOK
<1>2. clk' \in 1..Size \cup {None}
  BY <1>1 DEF ajaxSubmit
<1>3. FieldsTypeOK'
  BY <1>1, <1>2 DEF ajaxSubmit, FieldsTypeOK, Control
<1>4. PICK sub : subs' = Append(subs, sub)
  BY DEF ajaxSubmit
<1>5. Len(subs') = Len(subs) + 1 /\ Len(subs) < MaxSubmits /\ Len(subs) \in Nat
  BY <1>4 DEF UploadInv, ajaxSubmit
<1>6. method' \in {"GET", "POST"}
  BY DEF ajaxSubmit, UploadBounds
<1>7. QED
  BY <1>3, <1>5, <1>6, UploadAssumption DEF UploadBounds

\* A submission that goes on or is called back.
LEMMA SubBounds ==
  ASSUME UploadInv, UploadInv', UploadBounds, NEW s \in DOMAIN subs, NEW sub,
         subs' = [subs EXCEPT ![s] = sub], UNCHANGED <<method, clk, written>>,
         fields' \in {fields, AfterSuccess(s)}
  PROVE  UploadBounds'
<1>1. fields' \in [1..Size -> Control]
  BY AfterSuccessType DEF UploadBounds, FieldsTypeOK
<1>2. FieldsTypeOK'
  BY <1>1 DEF UploadBounds, FieldsTypeOK, Control
<1>3. Len(subs') = Len(subs)
  BY SameNumber
<1>4. QED
  BY <1>2, <1>3 DEF UploadBounds

LEMMA BoundsNext ==
  ASSUME UploadInv, UploadInv', UploadBounds, [UploadNext]_uvars
  PROVE  UploadBounds'
<1>1. CASE ajaxSubmit
  BY <1>1, SubmitBounds
<1>2. CASE work
  <2>1. FormNext /\ UNCHANGED <<method, subs>>
    BY <1>2 DEF work, FormNext
  <2>2. FieldsTypeOK'
    BY <2>1, FieldsStep DEF UploadBounds
  <2>3. QED
    BY <2>1, <2>2 DEF UploadBounds
<1>3. CASE UNCHANGED uvars
  BY <1>3 DEF uvars, UploadBounds, FieldsTypeOK, Control
<1>4. ASSUME NEW s \in DOMAIN subs,
             upload(s) \/ load(s) \/ timeout(s) \/ answer(s) \/ successThrows(s) \/ clean(s)
      PROVE  UploadBounds'
  <2>1. \E sub : subs' = [subs EXCEPT ![s] = sub]
    BY <1>4 DEF upload, load, timeout, answer, successThrows, clean, Done
  <2>2. PICK sub : subs' = [subs EXCEPT ![s] = sub]
    BY <2>1
  <2>3. UNCHANGED <<method, clk, written>> /\ fields' \in {fields, AfterSuccess(s)}
    BY <1>4 DEF upload, load, timeout, answer, successThrows, clean, Done
  <2>4. QED
    BY <2>2, <2>3, SubBounds
<1>5. QED
  BY <1>1, <1>2, <1>3, <1>4 DEF UploadNext

LEMMA UploadAlways == UploadSpec => [](UploadInv /\ UploadBounds)
<1>1. UploadInit => UploadInv /\ UploadBounds
  BY UploadInvInit, BoundsInit
<1>2. UploadInv /\ UploadBounds /\ [UploadNext]_uvars => (UploadInv /\ UploadBounds)'
  <2>1. UploadInv /\ [UploadNext]_uvars => UploadInv'
    BY UploadInvNext
  <2>2. QED
    BY <2>1, BoundsNext
<1>3. QED
  BY <1>1, <1>2, PTL DEF UploadSpec

\* The form and its submissions have values of their types, and no more of them are counted
\* than were begun, while the callbacks clear and reset the form (ajaxSubmit, fileUpload).
THEOREM UploadTypes == UploadSpec => []UploadTypeOK
<1>1. UploadInv /\ UploadBounds => UploadTypeOK
  <2> SUFFICES ASSUME UploadInv, UploadBounds PROVE UploadTypeOK
    OBVIOUS
  <2>1. activeUploads \in 0..MaxSubmits
    <3>1. activeUploads \in 0..Len(subs) /\ Len(subs) <= MaxSubmits /\ Len(subs) \in Nat
      BY PendingBound DEF UploadInv, UploadBounds
    <3>2. QED
      BY <3>1, UploadAssumption
  <2>2. \A s \in DOMAIN subs :
          subs[s].answers \in Nat /\ subs[s].step \in {"breath", "sent", "cleaned"}
    BY DEF UploadInv, SubInv, Subs
  <2>3. QED
    BY <2>1, <2>2 DEF UploadBounds, UploadTypeOK
<1>2. QED
  BY <1>1, UploadAlways, PTL

\* Of a form that is being submitted, too, whose fields the success callbacks clear and reset:
\* at any moment formToArray would gather its successful controls, the same in both orders.
THEOREM PairsOfUploads == UploadSpec => []FormPairs
<1>1. UploadBounds => FormPairs
  BY PairsAlways DEF UploadBounds
<1>2. QED
  BY <1>1, UploadAlways, PTL


--------------------------------------------------------------------------------
(* Numbers of a card (CreditCard).                                                    *)

\* What a number of a card is made of.
Characters == Digits \cup {Dash}

LEMMA SumOfOne ==
  ASSUME NEW S, IsFiniteSet(S), NEW f, \A x \in S : f[x] \in Int, NEW x \in S
  PROVE  SumFunctionOnSet(f, S) = f[x] + SumFunctionOnSet(f, S \ {x})
<1>1. S \in SUBSET S
  OBVIOUS
<1>2. QED
  BY <1>1, SumTaken

\* A digit counts k places from the right.
Weighted(k, d) == IF k % 2 = 1 THEN Doubled(d) ELSE d
Weights(s) == [n \in DOMAIN s |-> Weighted(Len(s) - n, s[n])]
Checksum(s) == SumFunctionOnSet(Weights(s), DOMAIN s)

LEMMA ChecksumOfCard ==
  ASSUME NEW c
  PROVE  creditcard(c) <=> Checksum(Filter(c, Digits)) % 10 = 0
<1> DEFINE digits == Filter(c, Digits)
           count == [n \in DOMAIN digits |-> IF (Len(digits) - n) % 2 = 1 THEN Doubled(digits[n])
                                             ELSE digits[n]]
<1>1. creditcard(c) <=> SumFunctionOnSet(count, DOMAIN count) % 10 = 0
  BY DEF creditcard
<1>2. count = Weights(digits) /\ DOMAIN count = DOMAIN digits
  BY DEF Weights, Weighted
<1>3. QED
  BY <1>1, <1>2, Zenon DEF Checksum

LEMMA DoubledType == \A d \in Digits : Doubled(d) \in Digits
  BY DEF Digits, Doubled

LEMMA WeightsType ==
  ASSUME NEW s \in Seq(Digits)
  PROVE  /\ IsFiniteSet(DOMAIN s)
         /\ \A n \in DOMAIN s : Weights(s)[n] \in Digits /\ Weights(s)[n] = Weighted(Len(s) - n, s[n])
<1>1. Len(s) \in Nat /\ DOMAIN s = 1..Len(s) /\ \A n \in DOMAIN s : s[n] \in Digits
  BY LenProperties
<1>2. IsFiniteSet(1..Len(s))
  BY <1>1, FS_Interval
<1>3. ASSUME NEW n \in DOMAIN s
      PROVE  Weights(s)[n] = Weighted(Len(s) - n, s[n]) /\ Weighted(Len(s) - n, s[n]) \in Digits
  <2>1. Weights(s)[n] = Weighted(Len(s) - n, s[n])
    BY DEF Weights
  <2>2. s[n] \in Digits /\ Doubled(s[n]) \in Digits
    BY <1>1, DoubledType
  <2>3. QED
    BY <2>1, <2>2 DEF Weighted
<1>4. QED
  BY <1>1, <1>2, <1>3

\* A digit counts something else in its place when it is another one.
LEMMA DoubledBits == \A a, b \in Digits : Doubled(a) = Doubled(b) => a = b
  BY DEF Digits, Doubled

\* When one digit is another one, what the others count is the same.
LEMMA ChecksumChanged ==
  ASSUME NEW s \in Seq(Digits), NEW t \in Seq(Digits), Len(s) = Len(t), NEW j \in DOMAIN s,
         \A n \in DOMAIN s : n # j => s[n] = t[n]
  PROVE  \E rest \in Int :
           /\ Checksum(s) = Weights(s)[j] + rest
           /\ Checksum(t) = Weights(t)[j] + rest
<1>1. DOMAIN s = DOMAIN t
  BY LenProperties
<1> DEFINE S == DOMAIN s
           D == S \ {j}
           f == Weights(s)
           g == Weights(t)
<1>2. IsFiniteSet(S) /\ (\A x \in S : f[x] \in Int) /\ (\A x \in S : g[x] \in Int)
  <2>1. \A d \in Digits : d \in Int
    BY DEF Digits
  <2>2. \A x \in S : f[x] \in Digits
    BY WeightsType
  <2>3. \A x \in S : g[x] \in Digits
    BY <1>1, WeightsType
  <2>4. QED
    BY <2>1, <2>2, <2>3, WeightsType
<1>3. \A x \in D : f[x] = g[x]
  BY <1>1, WeightsType
<1>4. Checksum(s) = SumFunctionOnSet(f, S) /\ Checksum(t) = SumFunctionOnSet(g, S)
  BY <1>1 DEF Checksum
<1> HIDE DEF f, g, D, S
<1>5. D \in SUBSET S /\ j \in S /\ S \in SUBSET S /\ D = S \ {j} /\ IsFiniteSet(D)
  BY <1>2, FS_Subset DEF D, S
<1>6. /\ SumFunctionOnSet(f, S) = f[j] + SumFunctionOnSet(f, D)
      /\ SumFunctionOnSet(g, S) = g[j] + SumFunctionOnSet(g, D)
  BY <1>2, <1>5, SumTaken
<1>7. SumFunctionOnSet(f, D) = SumFunctionOnSet(g, D)
  <2>1. \A x \in D : f[x] \in Int /\ f[x] = g[x]
    BY <1>2, <1>3, <1>5
  <2>2. QED
    BY <1>5, <2>1, SumSame
<1>8. SumFunctionOnSet(f, D) \in Int
  BY <1>2, <1>5, SumType
<1>9. QED
  BY <1>4, <1>6, <1>7, <1>8 DEF f, g

\* When two digits that follow each other are others.
LEMMA ChecksumChangedTwice ==
  ASSUME NEW s \in Seq(Digits), NEW t \in Seq(Digits), Len(s) = Len(t),
         NEW j \in DOMAIN s, NEW k \in DOMAIN s, j # k,
         \A n \in DOMAIN s : n # j /\ n # k => s[n] = t[n]
  PROVE  \E rest \in Int :
           /\ Checksum(s) = Weights(s)[j] + (Weights(s)[k] + rest)
           /\ Checksum(t) = Weights(t)[j] + (Weights(t)[k] + rest)
<1>1. DOMAIN s = DOMAIN t
  BY LenProperties
<1> DEFINE S == DOMAIN s
           C == S \ {j}
           D == C \ {k}
           f == Weights(s)
           g == Weights(t)
<1>2. IsFiniteSet(S) /\ (\A x \in S : f[x] \in Int) /\ (\A x \in S : g[x] \in Int)
  <2>1. \A d \in Digits : d \in Int
    BY DEF Digits
  <2>2. \A x \in S : f[x] \in Digits
    BY WeightsType
  <2>3. \A x \in S : g[x] \in Digits
    BY <1>1, WeightsType
  <2>4. QED
    BY <2>1, <2>2, <2>3, WeightsType
<1>3. \A x \in D : f[x] = g[x]
  BY <1>1, WeightsType
<1>4. Checksum(s) = SumFunctionOnSet(f, S) /\ Checksum(t) = SumFunctionOnSet(g, S)
  BY <1>1 DEF Checksum
<1> HIDE DEF f, g, D, S, C
<1>5. /\ S \in SUBSET S /\ C \in SUBSET S /\ D \in SUBSET S /\ IsFiniteSet(D)
      /\ C = S \ {j} /\ D = C \ {k} /\ j \in S /\ k \in C
  BY <1>2, FS_Subset DEF C, D, S
<1>6. /\ SumFunctionOnSet(f, S) = f[j] + SumFunctionOnSet(f, C)
      /\ SumFunctionOnSet(f, C) = f[k] + SumFunctionOnSet(f, D)
  <2>1. IsFiniteSet(S) /\ (\A x \in S : f[x] \in Int) /\ j \in S
    BY <1>2, <1>5
  <2>2. IsFiniteSet(C) /\ (\A x \in C : f[x] \in Int) /\ k \in C
    BY <1>2, <1>5, FS_Subset
  <2>3. SumFunctionOnSet(f, S) = f[j] + SumFunctionOnSet(f, S \ {j})
    BY <2>1, SumOfOne
  <2>4. SumFunctionOnSet(f, C) = f[k] + SumFunctionOnSet(f, C \ {k})
    BY <2>2, SumOfOne
  <2>5. QED
    BY <1>5, <2>3, <2>4
<1>7. /\ SumFunctionOnSet(g, S) = g[j] + SumFunctionOnSet(g, C)
      /\ SumFunctionOnSet(g, C) = g[k] + SumFunctionOnSet(g, D)
  <2>1. IsFiniteSet(S) /\ (\A x \in S : g[x] \in Int) /\ j \in S
    BY <1>2, <1>5
  <2>2. IsFiniteSet(C) /\ (\A x \in C : g[x] \in Int) /\ k \in C
    BY <1>2, <1>5, FS_Subset
  <2>3. SumFunctionOnSet(g, S) = g[j] + SumFunctionOnSet(g, S \ {j})
    BY <2>1, SumOfOne
  <2>4. SumFunctionOnSet(g, C) = g[k] + SumFunctionOnSet(g, C \ {k})
    BY <2>2, SumOfOne
  <2>5. QED
    BY <1>5, <2>3, <2>4
<1>8. SumFunctionOnSet(f, D) = SumFunctionOnSet(g, D)
  <2>1. \A x \in D : f[x] \in Int /\ f[x] = g[x]
    BY <1>2, <1>3, <1>5
  <2>2. QED
    BY <1>5, <2>1, SumSame
<1>9. SumFunctionOnSet(f, D) \in Int
  BY <1>2, <1>5, SumType
<1>10. QED
  BY <1>4, <1>6, <1>7, <1>8, <1>9 DEF f, g

\* One digit that is another one is seen, wherever it is.
LEMMA MisreadSeen ==
  ASSUME NEW s \in Seq(Digits), NEW t \in Seq(Digits), Len(s) = Len(t), NEW j \in DOMAIN s,
         \A n \in DOMAIN s : n # j => s[n] = t[n],
         Checksum(s) % 10 = 0, Checksum(t) % 10 = 0
  PROVE  s[j] = t[j]
<1>1. PICK rest \in Int : Checksum(s) = Weights(s)[j] + rest /\ Checksum(t) = Weights(t)[j] + rest
  BY ChecksumChanged
<1>2. DOMAIN s = DOMAIN t /\ s[j] \in Digits /\ t[j] \in Digits
  BY LenProperties
<1>3. /\ Weights(s)[j] \in Digits /\ Weights(s)[j] = Weighted(Len(s) - j, s[j])
      /\ Weights(t)[j] \in Digits /\ Weights(t)[j] = Weighted(Len(s) - j, t[j])
  BY <1>2, WeightsType
<1>4. ASSUME NEW a \in 0..9, NEW b \in 0..9, (a + rest) % 10 = 0, (b + rest) % 10 = 0
      PROVE  a = b
  BY <1>4
<1>5. Weights(s)[j] = Weights(t)[j]
  BY <1>1, <1>3, <1>4 DEF Digits
<1>6. QED
  BY <1>2, <1>3, <1>5, DoubledBits DEF Weighted

LEMMA SwapCounts ==
  ASSUME NEW a \in Digits, NEW b \in Digits, NEW r \in Int, a # b,
         (Doubled(a) + (b + r)) % 10 = 0, (Doubled(b) + (a + r)) % 10 = 0
  PROVE  {a, b} = {0, 9}
<1>1. ASSUME NEW x \in Int, NEW y \in Int, x % 10 = 0, y % 10 = 0, x - y \in -19..19
      PROVE  x - y \in {-10, 0, 10}
  BY <1>1
<1>2. Doubled(a) \in 0..9 /\ Doubled(b) \in 0..9 /\ a \in 0..9 /\ b \in 0..9
  BY DoubledType DEF Digits
<1>3. (Doubled(a) + (b + r)) - (Doubled(b) + (a + r)) \in {-10, 0, 10}
  <2>1. ASSUME NEW p \in 0..9, NEW q \in 0..9, NEW c \in 0..9, NEW d \in 0..9
        PROVE  /\ p + (d + r) \in Int /\ q + (c + r) \in Int
               /\ (p + (d + r)) - (q + (c + r)) \in -19..19
    OBVIOUS
  <2>2. /\ Doubled(a) + (b + r) \in Int /\ Doubled(b) + (a + r) \in Int
        /\ (Doubled(a) + (b + r)) - (Doubled(b) + (a + r)) \in -19..19
    BY <1>2, <2>1
  <2>3. QED
    BY <1>1, <2>2, Zenon
<1>4. (a = 0 /\ b = 9) \/ (a = 9 /\ b = 0)
  BY <1>2, <1>3 DEF Doubled
<1>5. QED
  BY <1>4

\* t is s with the members at j and j + 1 swapped.
Swaps(t, s, j) ==
  /\ j \in DOMAIN s /\ j + 1 \in DOMAIN s /\ s[j] # s[j + 1]
  /\ Len(t) = Len(s) /\ t[j] = s[j + 1] /\ t[j + 1] = s[j]
  /\ \A n \in DOMAIN s : n # j /\ n # j + 1 => t[n] = s[n]

\* Two neighbours that change places are seen, but for a zero and a nine.
LEMMA SwapSeen ==
  ASSUME NEW s, s \in Seq(Digits), NEW t, t \in Seq(Digits), NEW j, Swaps(t, s, j),
         Checksum(s) % 10 = 0, Checksum(t) % 10 = 0
  PROVE  {s[j], t[j]} = {0, 9}
<1>0. /\ j \in DOMAIN s /\ j + 1 \in DOMAIN s /\ s[j] # s[j + 1]
      /\ Len(s) = Len(t) /\ t[j] = s[j + 1] /\ t[j + 1] = s[j]
      /\ \A n \in DOMAIN s : n # j /\ n # j + 1 => s[n] = t[n]
  BY DEF Swaps
<1>1. /\ DOMAIN s = DOMAIN t /\ s[j] \in Digits /\ t[j] \in Digits /\ Len(s) \in Nat /\ j \in Nat
      /\ s[j] # t[j] /\ j # j + 1 /\ (\A n \in DOMAIN s : n # j /\ n # j + 1 => s[n] = t[n])
  BY <1>0, LenProperties
<1>2. PICK rest \in Int :
        /\ Checksum(s) = Weights(s)[j] + (Weights(s)[j + 1] + rest)
        /\ Checksum(t) = Weights(t)[j] + (Weights(t)[j + 1] + rest)
  BY <1>0, <1>1, ChecksumChangedTwice
<1>3. /\ Weights(s)[j] = Weighted(Len(s) - j, s[j])
      /\ Weights(s)[j + 1] = Weighted(Len(s) - (j + 1), t[j])
      /\ Weights(t)[j] = Weighted(Len(s) - j, t[j])
      /\ Weights(t)[j + 1] = Weighted(Len(s) - (j + 1), s[j])
  BY <1>0, <1>1, WeightsType
<1>4. \/ (Len(s) - j) % 2 = 1 /\ ~ ((Len(s) - (j + 1)) % 2 = 1)
      \/ ~ ((Len(s) - j) % 2 = 1) /\ (Len(s) - (j + 1)) % 2 = 1
  <2>1. ASSUME NEW k \in Int
        PROVE  (k % 2 = 1 /\ ~ ((k - 1) % 2 = 1)) \/ (~ (k % 2 = 1) /\ (k - 1) % 2 = 1)
    OBVIOUS
  <2>2. Len(s) - j \in Int /\ Len(s) - (j + 1) = (Len(s) - j) - 1
    BY <1>0, <1>1
  <2>3. QED
    BY <2>1, <2>2
<1>5. /\ (Doubled(s[j]) + (t[j] + rest)) % 10 = 0
      /\ (Doubled(t[j]) + (s[j] + rest)) % 10 = 0
  <2>1. CASE (Len(s) - j) % 2 = 1 /\ ~ ((Len(s) - (j + 1)) % 2 = 1)
    BY <1>2, <1>3, <2>1 DEF Weighted
  <2>2. CASE ~ ((Len(s) - j) % 2 = 1) /\ (Len(s) - (j + 1)) % 2 = 1
    <3>1. /\ (s[j] + (Doubled(t[j]) + rest)) % 10 = 0
          /\ (t[j] + (Doubled(s[j]) + rest)) % 10 = 0
      BY <1>2, <1>3, <2>2 DEF Weighted
    <3>2. s[j] \in Int /\ t[j] \in Int /\ Doubled(s[j]) \in Int /\ Doubled(t[j]) \in Int
      <4>1. \A d \in Digits : d \in Int
        BY DEF Digits
      <4>2. QED
        BY <1>1, <4>1, DoubledType
    <3>3. \A a, b, r \in Int : a + (b + r) = b + (a + r)
      OBVIOUS
    <3>4. /\ s[j] + (Doubled(t[j]) + rest) = Doubled(t[j]) + (s[j] + rest)
          /\ t[j] + (Doubled(s[j]) + rest) = Doubled(s[j]) + (t[j] + rest)
      BY <3>2, <3>3
    <3>5. QED
      BY <3>1, <3>4
  <2>3. QED
    BY <1>4, <2>1, <2>2
<1> DEFINE a == s[j]
           b == t[j]
<1>6. a \in Digits /\ b \in Digits /\ a # b
  BY <1>1
<1>7. (Doubled(a) + (b + rest)) % 10 = 0 /\ (Doubled(b) + (a + rest)) % 10 = 0
  BY <1>5
<1> HIDE DEF a, b
<1>8. {a, b} = {0, 9}
  BY <1>6, <1>7, SwapCounts
<1>9. QED
  BY <1>8 DEF a, b

--------------------------------------------------------------------------------
(* How the digits of a value change when some of its characters do.                 *)

LEMMA SeqWithin ==
  ASSUME NEW T, NEW U, NEW s, s \in Seq(T), ToSet(s) \subseteq U
  PROVE  s \in Seq(U)
<1>1. Len(s) \in Nat /\ s \in [1..Len(s) -> T]
  BY LenProperties
<1>2. \A n \in 1..Len(s) : s[n] \in U
  BY <1>1 DEF ToSet
<1>3. s \in [1..Len(s) -> U]
  BY <1>1, <1>2
<1> DEFINE n == Len(s)
<1>4. n \in Nat /\ s \in [1..n -> U]
  BY <1>1, <1>3
<1> HIDE DEF n
<1>5. QED
  BY <1>4, SeqDef

Joined(a, m, b) == (a \o m) \o b

\* t is s with m in the place of the k members from i on.
Replaces(t, s, m, i, k) ==
  /\ i \in Nat \ {0} /\ k \in Nat /\ i + k <= Len(s) + 1 /\ Len(m) = k /\ Len(t) = Len(s)
  /\ \A n \in 1..Len(s) : t[n] = IF i <= n /\ n < i + k THEN m[(n - i) + 1] ELSE s[n]

LEMMA Replaced ==
  ASSUME NEW s, s \in Seq(Characters), NEW t, t \in Seq(Characters),
         NEW m, m \in Seq(Characters), NEW i, NEW k, Replaces(t, s, m, i, k)
  PROVE  t = Joined(SubSeq(s, 1, i - 1), m, SubSeq(s, i + k, Len(s)))
<1> DEFINE A == SubSeq(s, 1, i - 1)
           B == SubSeq(s, i + k, Len(s))
<1>1. /\ Len(s) \in Nat /\ Len(m) \in Nat /\ \A n \in 1..Len(s) : s[n] \in Characters
  BY LenProperties, ElementOfSeq
<1>0. /\ i \in Nat \ {0} /\ k \in Nat /\ i + k <= Len(s) + 1 /\ Len(m) = k /\ Len(t) = Len(s)
      /\ \A n \in 1..Len(s) : t[n] = IF i <= n /\ n < i + k THEN m[(n - i) + 1] ELSE s[n]
  BY DEF Replaces
<1>2. /\ A \in Seq(Characters) /\ Len(A) = i - 1 /\ \A n \in 1..i - 1 : A[n] = s[n]
  <2>1. /\ 1 \in Int /\ i - 1 \in Int /\ \A n \in 1..i - 1 : s[n] \in Characters
    BY <1>0, <1>1
  <2>2. /\ A \in Seq(Characters) /\ Len(A) = (IF 1 <= i - 1 THEN (i - 1) - 1 + 1 ELSE 0)
        /\ \A n \in 1..(i - 1) - 1 + 1 : A[n] = s[1 + n - 1]
    BY <2>1, SubSeqProperties
  <2>3. (i - 1) - 1 + 1 = i - 1 /\ \A n \in 1..i - 1 : 1 + n - 1 = n
    BY <1>0
  <2>4. i - 1 \in Nat /\ (IF 1 <= i - 1 THEN i - 1 ELSE 0) = i - 1
    BY <1>0
  <2>5. QED
    BY <2>2, <2>3, <2>4
<1>3. /\ B \in Seq(Characters) /\ Len(B) = (Len(s) - (i + k)) + 1
      /\ \A n \in 1..(Len(s) - (i + k)) + 1 : B[n] = s[(i + k) + n - 1]
  <2>1. /\ i + k \in Int /\ Len(s) \in Int
        /\ \A n \in (i + k)..Len(s) : s[n] \in Characters
    BY <1>0, <1>1
  <2>2. /\ B \in Seq(Characters)
        /\ Len(B) = (IF i + k <= Len(s) THEN (Len(s) - (i + k)) + 1 ELSE 0)
        /\ \A n \in 1..(Len(s) - (i + k)) + 1 : B[n] = s[(i + k) + n - 1]
    BY <2>1, SubSeqProperties
  <2>3. (IF i + k <= Len(s) THEN (Len(s) - (i + k)) + 1 ELSE 0)
          = (Len(s) - (i + k)) + 1
    BY <1>0, <1>1
  <2>4. QED
    BY <2>2, <2>3, Zenon
<1> HIDE DEF A, B
<1>4. /\ A \o m \in Seq(Characters) /\ Len(A \o m) = (i - 1) + Len(m)
      /\ \A n \in 1..(i - 1) + Len(m) :
           (A \o m)[n] = IF n <= i - 1 THEN s[n] ELSE m[n - (i - 1)]
  <2>1. /\ A \o m \in Seq(Characters) /\ Len(A \o m) = Len(A) + Len(m)
        /\ \A n \in 1..Len(A) + Len(m) :
             (A \o m)[n] = IF n <= Len(A) THEN A[n] ELSE m[n - Len(A)]
    BY <1>2, ConcatProperties
  <2>2. ASSUME NEW n \in 1..(i - 1) + Len(m), n <= i - 1 PROVE A[n] = s[n]
    <3>1. n \in 1..i - 1
      BY <1>0, <1>1, <2>2
    <3>2. QED
      BY <1>2, <3>1
  <2>3. Len(A) = i - 1
    BY <1>2
  <2>4. /\ A \o m \in Seq(Characters) /\ Len(A \o m) = (i - 1) + Len(m)
        /\ \A n \in 1..(i - 1) + Len(m) :
             (A \o m)[n] = IF n <= i - 1 THEN A[n] ELSE m[n - (i - 1)]
    BY <2>1, <2>3, Zenon
  <2>5. QED
    BY <2>2, <2>4
<1> DEFINE C == A \o m
           u == C \o B
<1>5. /\ u \in Seq(Characters) /\ Len(u) = Len(C) + Len(B)
      /\ \A n \in 1..Len(C) + Len(B) : u[n] = IF n <= Len(C) THEN C[n] ELSE B[n - Len(C)]
  <2>1. C \in Seq(Characters)
    BY <1>4
  <2> HIDE DEF C
  <2>2. QED
    BY <1>3, <2>1, ConcatProperties
<1>6. /\ C \in Seq(Characters) /\ Len(C) = (i - 1) + Len(m)
      /\ \A n \in 1..(i - 1) + Len(m) : C[n] = IF n <= i - 1 THEN s[n] ELSE m[n - (i - 1)]
  BY <1>4
<1> HIDE DEF C, u
<1>7. Len(u) = Len(s)
  BY <1>0, <1>1, <1>3, <1>5, <1>6
<1>8. ASSUME NEW n \in 1..Len(s) PROVE u[n] = t[n]
  <2>1. n \in Int /\ n \in 1..Len(C) + Len(B)
    BY <1>5, <1>7
  <2>2. CASE n <= i - 1
    <3>1. n <= Len(C) /\ n \in 1..(i - 1) + Len(m) /\ ~ (i <= n)
      BY <1>0, <1>1, <1>6, <2>1, <2>2
    <3>2. u[n] = C[n] /\ C[n] = s[n] /\ t[n] = s[n]
      BY <1>0, <1>5, <1>6, <2>1, <2>2, <3>1
    <3>3. QED
      BY <3>2
  <2>3. CASE i <= n /\ n < i + k
    <3>1. /\ n <= Len(C) /\ n \in 1..(i - 1) + Len(m) /\ ~ (n <= i - 1)
          /\ n - (i - 1) = (n - i) + 1
      BY <1>0, <1>1, <1>6, <2>1, <2>3
    <3>2. u[n] = C[n] /\ C[n] = m[n - (i - 1)] /\ t[n] = m[(n - i) + 1]
      BY <1>0, <1>5, <1>6, <2>1, <2>3, <3>1
    <3>3. QED
      BY <3>1, <3>2
  <2>4. CASE i + k <= n
    <3>1. /\ ~ (n <= Len(C)) /\ n - Len(C) \in 1..(Len(s) - (i + k)) + 1
          /\ (i + k) + (n - Len(C)) - 1 = n /\ ~ (n < i + k)
      <4>1. /\ Len(C) = (i - 1) + k /\ Len(C) \in Int /\ i \in Nat \ {0} /\ k \in Nat
            /\ Len(s) \in Nat /\ n \in 1..Len(s) /\ i + k <= n
        BY <1>0, <1>1, <1>6, <2>4
      <4>2. ASSUME NEW c \in Int, c = (i - 1) + k, NEW l \in Nat, n \in 1..l, i + k <= n
            PROVE  /\ ~ (n <= c) /\ n - c \in 1..(l - (i + k)) + 1
                   /\ (i + k) + (n - c) - 1 = n /\ ~ (n < i + k)
        BY <4>1, <4>2
      <4>3. QED
        BY <4>1, <4>2, Zenon
    <3>2. u[n] = B[n - Len(C)]
      BY <1>5, <2>1, <3>1
    <3>3. B[n - Len(C)] = s[n]
      BY <1>3, <3>1
    <3>4. t[n] = s[n]
      BY <1>0, <3>1
    <3>5. QED
      BY <3>2, <3>3, <3>4
  <2>5. QED
    BY <1>0, <1>1, <2>1, <2>2, <2>3, <2>4
<1>9. u = t
  BY <1>0, <1>5, <1>7, <1>8, SeqEqual
<1>10. QED
  BY <1>9 DEF u, C, A, B, Joined

\* The digits of it are those before m, those of m and those after it.
LEMMA FilterReplaced ==
  ASSUME NEW a, a \in Seq(Characters), NEW m, m \in Seq(Characters), NEW b, b \in Seq(Characters)
  PROVE  Filter(Joined(a, m, b), Digits) =
           Joined(Filter(a, Digits), Filter(m, Digits), Filter(b, Digits))
<1> DEFINE c == a \o m
<1>1. c \in Seq(Characters)
  BY ConcatProperties
<1>2. Filter(c, Digits) = Filter(a, Digits) \o Filter(m, Digits)
  BY FilterConcat
<1> HIDE DEF c
<1>3. Filter(c \o b, Digits) = Filter(c, Digits) \o Filter(b, Digits)
  BY <1>1, FilterConcat, SMTT(30)
<1>4. QED
  BY <1>2, <1>3 DEF c, Joined

LEMMA DigitsOf ==
  ASSUME NEW s, s \in Seq(Characters)
  PROVE  /\ Filter(s, Digits) \in Seq(Digits)
         /\ ToSet(s) \subseteq Digits => Filter(s, Digits) = s
         /\ ToSet(s) \cap Digits = {} => Filter(s, Digits) = <<>>
<1>1. Filter(s, Digits) \in Seq(Characters) /\ ToSet(Filter(s, Digits)) = ToSet(s) \cap Digits
  BY FilterType, FilterRange
<1>2. Filter(s, Digits) \in Seq(Digits)
  <2> DEFINE f == Filter(s, Digits)
  <2>1. f \in Seq(Characters) /\ ToSet(f) \subseteq Digits
    BY <1>1
  <2> HIDE DEF f
  <2>2. f \in Seq(Digits)
    BY <2>1, SeqWithin
  <2>3. QED
    BY <2>2 DEF f
<1>3. QED
  BY <1>2, FilterAll, FilterNone

\* What comes before and after has its places, and m the ones between.
MadeOf(u, a, m, b) ==
  /\ u \in Seq(Digits) /\ Len(u) = (Len(a) + Len(m)) + Len(b)
  /\ \A n \in 1..(Len(a) + Len(m)) + Len(b) :
       u[n] = IF n <= Len(a) THEN a[n]
              ELSE IF n <= Len(a) + Len(m) THEN m[n - Len(a)] ELSE b[n - (Len(a) + Len(m))]

LEMMA Between ==
  ASSUME NEW a, a \in Seq(Digits), NEW m, m \in Seq(Digits), NEW b, b \in Seq(Digits)
  PROVE  MadeOf(Joined(a, m, b), a, m, b)
<1> DEFINE c == a \o m
<1>1. /\ c \in Seq(Digits) /\ Len(c) = Len(a) + Len(m)
      /\ \A n \in 1..Len(a) + Len(m) : c[n] = IF n <= Len(a) THEN a[n] ELSE m[n - Len(a)]
  BY ConcatProperties
<1> HIDE DEF c, Joined, MadeOf
<1>2. /\ c \o b \in Seq(Digits) /\ Len(c \o b) = Len(c) + Len(b)
      /\ \A n \in 1..Len(c) + Len(b) : (c \o b)[n] = IF n <= Len(c) THEN c[n] ELSE b[n - Len(c)]
  <2>1. c \in Seq(Digits)
    BY <1>1
  <2>2. QED
    BY <2>1, ConcatProperties
<1>3. Len(a) \in Nat /\ Len(m) \in Nat /\ Len(b) \in Nat
  BY LenProperties
<1>4. ASSUME NEW n \in 1..(Len(a) + Len(m)) + Len(b)
      PROVE  (c \o b)[n] = IF n <= Len(a) THEN a[n]
                           ELSE IF n <= Len(a) + Len(m) THEN m[n - Len(a)]
                           ELSE b[n - (Len(a) + Len(m))]
  <2>1. CASE n <= Len(a) + Len(m)
    <3>1. n \in 1..Len(a) + Len(m) /\ n <= Len(c)
      BY <1>1, <1>3, <2>1
    <3>2. (c \o b)[n] = c[n]
      BY <1>1, <1>2, <3>1
    <3>3. QED
      BY <1>1, <2>1, <3>1, <3>2
  <2>2. CASE ~ (n <= Len(a) + Len(m))
    <3>1. ~ (n <= Len(c)) /\ ~ (n <= Len(a))
      BY <1>1, <1>3, <2>2
    <3>2. QED
      BY <1>1, <1>2, <2>2, <3>1
  <2>3. QED
    BY <2>1, <2>2
<1>5. QED
  BY <1>1, <1>2, <1>4 DEF c, Joined, MadeOf

Before(s, i) == Filter(SubSeq(s, 1, i - 1), Digits)
After(s, i) == Filter(SubSeq(s, i, Len(s)), Digits)

LEMMA DigitsBeside ==
  ASSUME NEW s, s \in Seq(Characters), NEW i \in Nat \ {0}, i <= Len(s) + 1
  PROVE  /\ Before(s, i) \in Seq(Digits) /\ SubSeq(s, 1, i - 1) \in Seq(Characters)
         /\ After(s, i) \in Seq(Digits) /\ SubSeq(s, i, Len(s)) \in Seq(Characters)
<1>1. Len(s) \in Nat /\ \A n \in 1..Len(s) : s[n] \in Characters
  BY LenProperties, ElementOfSeq
<1>2. /\ 1 \in Int /\ i - 1 \in Int /\ (\A n \in 1..i - 1 : s[n] \in Characters)
      /\ i \in Int /\ Len(s) \in Int /\ (\A n \in i..Len(s) : s[n] \in Characters)
  BY <1>1
<1>3. SubSeq(s, 1, i - 1) \in Seq(Characters)
  BY <1>2, SubSeqProperties
<1>4. SubSeq(s, i, Len(s)) \in Seq(Characters)
  BY <1>2, SubSeqProperties
<1>5. QED
  BY <1>3, <1>4, DigitsOf DEF Before, After

\* So are the digits of a value that is s with m in the place of some of its members.
LEMMA DigitsReplaced ==
  ASSUME NEW s, s \in Seq(Characters), NEW t, t \in Seq(Characters),
         NEW m, m \in Seq(Digits), NEW i, NEW k, Replaces(t, s, m, i, k)
  PROVE  Filter(t, Digits) = Joined(Before(s, i), m, After(s, i + k))
<1>1. m \in Seq(Characters) /\ ToSet(m) \subseteq Digits
  <2>1. m \in Seq(Characters)
    BY SeqMonotonic DEF Characters
  <2>2. ToSet(m) \subseteq Digits
    BY ToSetType
  <2>3. QED
    BY <2>1, <2>2
<1> DEFINE A == SubSeq(s, 1, i - 1)
           B == SubSeq(s, i + k, Len(s))
<1>2. t = Joined(A, m, B)
  BY <1>1, Replaced
<1>3. A \in Seq(Characters) /\ B \in Seq(Characters)
  <2>1. /\ i \in Nat \ {0} /\ i + k \in Nat \ {0} /\ i <= Len(s) + 1 /\ i + k <= Len(s) + 1
    BY LenProperties DEF Replaces
  <2>2. QED
    BY <2>1, DigitsBeside
<1> HIDE DEF A, B
<1>4. Filter(Joined(A, m, B), Digits) =
        Joined(Filter(A, Digits), Filter(m, Digits), Filter(B, Digits))
  BY <1>1, <1>3, FilterReplaced
<1>5. Filter(m, Digits) = m
  BY <1>1, DigitsOf
<1>6. QED
  BY <1>2, <1>4, <1>5 DEF A, B, Before, After

\* Of two values that differ there, the digits differ in what x and y are.
LEMMA DigitsOfBoth ==
  ASSUME NEW s, s \in Seq(Characters), NEW t, t \in Seq(Characters), NEW i, NEW k,
         NEW x, x \in Seq(Digits), Replaces(s, s, x, i, k),
         NEW y, y \in Seq(Digits), Replaces(t, s, y, i, k)
  PROVE  \E f, g \in Seq(Digits) :
           /\ Filter(s, Digits) = Joined(f, x, g)
           /\ Filter(t, Digits) = Joined(f, y, g)
<1>1. Filter(s, Digits) = Joined(Before(s, i), x, After(s, i + k))
  BY DigitsReplaced
<1>2. Filter(t, Digits) = Joined(Before(s, i), y, After(s, i + k))
  BY DigitsReplaced
<1>3. Before(s, i) \in Seq(Digits) /\ After(s, i + k) \in Seq(Digits)
  <2>1. /\ i \in Nat \ {0} /\ i + k \in Nat \ {0} /\ i <= Len(s) + 1 /\ i + k <= Len(s) + 1
    BY LenProperties DEF Replaces
  <2>2. QED
    BY <2>1, DigitsBeside
<1>4. QED
  BY <1>1, <1>2, <1>3

\* Two that differ where x and y are, behind l other members.
Differ(u, w, l, x, y) ==
  /\ u \in Seq(Digits) /\ w \in Seq(Digits) /\ Len(u) = Len(w)
  /\ \A n \in DOMAIN x : l + n \in DOMAIN u /\ u[l + n] = x[n] /\ w[l + n] = y[n]
  /\ \A n \in DOMAIN u : n - l \notin DOMAIN x => u[n] = w[n]

LEMMA JoinedDiffer ==
  ASSUME NEW f, f \in Seq(Digits), NEW g, g \in Seq(Digits),
         NEW x, x \in Seq(Digits), NEW y, y \in Seq(Digits), Len(x) = Len(y)
  PROVE  Differ(Joined(f, x, g), Joined(f, y, g), Len(f), x, y)
<1> DEFINE u == Joined(f, x, g)
           w == Joined(f, y, g)
           k == Len(x)
<1>0. MadeOf(u, f, x, g) /\ MadeOf(w, f, y, g)
  BY Between
<1> HIDE DEF u, w
<1>1. /\ u \in Seq(Digits) /\ Len(u) = (Len(f) + Len(x)) + Len(g)
      /\ \A n \in 1..(Len(f) + Len(x)) + Len(g) :
           u[n] = IF n <= Len(f) THEN f[n]
                  ELSE IF n <= Len(f) + Len(x) THEN x[n - Len(f)] ELSE g[n - (Len(f) + Len(x))]
  BY <1>0 DEF MadeOf
<1>2. /\ w \in Seq(Digits) /\ Len(w) = (Len(f) + Len(y)) + Len(g)
      /\ \A n \in 1..(Len(f) + Len(y)) + Len(g) :
           w[n] = IF n <= Len(f) THEN f[n]
                  ELSE IF n <= Len(f) + Len(y) THEN y[n - Len(f)] ELSE g[n - (Len(f) + Len(y))]
  BY <1>0 DEF MadeOf
<1>3. Len(f) \in Nat /\ Len(g) \in Nat /\ k \in Nat /\ DOMAIN x = 1..k /\ DOMAIN u = 1..(Len(f) + k) + Len(g)
  BY <1>1, LenProperties
<1>4. ASSUME NEW n \in 1..k
      PROVE  /\ Len(f) + n \in DOMAIN u
             /\ u[Len(f) + n] = x[n] /\ w[Len(f) + n] = y[n]
  <2>1. /\ Len(f) + n \in 1..(Len(f) + k) + Len(g) /\ ~ (Len(f) + n <= Len(f))
        /\ Len(f) + n <= Len(f) + k /\ (Len(f) + n) - Len(f) = n
    BY <1>3
  <2>2. QED
    BY <1>1, <1>2, <1>3, <2>1
<1>5. ASSUME NEW n \in DOMAIN u, n - Len(f) \notin 1..k PROVE u[n] = w[n]
  <2>1. n \in 1..(Len(f) + k) + Len(g) /\ (n <= Len(f) + k <=> n <= Len(f))
    BY <1>3, <1>5
  <2>2. QED
    BY <1>1, <1>2, <2>1
<1>6. QED
  BY <1>1, <1>2, <1>3, <1>4, <1>5 DEF u, w, Differ

\* A digit that is read wrong.
LEMMA MisreadFound ==
  ASSUME NEW s, s \in Seq(Characters), NEW i \in DOMAIN s, NEW d \in Digits,
         s[i] \in Digits \ {d}, creditcard(s), creditcard([s EXCEPT ![i] = d])
  PROVE  FALSE
<1> DEFINE t == [s EXCEPT ![i] = d]
           x == <<s[i]>>
           y == <<d>>
<1>1. /\ i \in 1..Len(s) /\ Len(s) \in Nat /\ d \in Characters
      /\ i \in Nat \ {0} /\ 1 \in Nat /\ i + 1 <= Len(s) + 1
  BY LenProperties DEF Characters
<1>2. /\ t \in Seq(Characters) /\ Len(t) = Len(s)
      /\ \A n \in 1..Len(s) : t[n] = IF n = i THEN d ELSE s[n]
  BY <1>1, ExceptSeq
<1>3. /\ x \in Seq(Digits) /\ Len(x) = 1 /\ x[1] = s[i]
      /\ y \in Seq(Digits) /\ Len(y) = 1 /\ y[1] = d
  OBVIOUS
<1>4. creditcard(s) /\ creditcard(t)
  OBVIOUS
<1> HIDE DEF t, x, y
<1>5. \A n \in 1..Len(s) :
        /\ s[n] = IF i <= n /\ n < i + 1 THEN x[(n - i) + 1] ELSE s[n]
        /\ t[n] = IF i <= n /\ n < i + 1 THEN y[(n - i) + 1] ELSE s[n]
  BY <1>1, <1>2, <1>3
<1>6. PICK f \in Seq(Digits), g \in Seq(Digits) :
        Filter(s, Digits) = Joined(f, x, g) /\ Filter(t, Digits) = Joined(f, y, g)
  <2>1. Replaces(s, s, x, i, 1) /\ Replaces(t, s, y, i, 1)
    BY <1>1, <1>2, <1>3, <1>5 DEF Replaces
  <2>2. QED
    BY <1>2, <1>3, <2>1, DigitsOfBoth
<1> DEFINE u == Filter(s, Digits)
           w == Filter(t, Digits)
           j == Len(f) + 1
<1>7. Differ(u, w, Len(f), x, y)
  BY <1>3, <1>6, JoinedDiffer
<1>8. Checksum(u) % 10 = 0 /\ Checksum(w) % 10 = 0
  BY <1>4, ChecksumOfCard
<1> HIDE DEF u, w
<1>9. /\ u \in Seq(Digits) /\ w \in Seq(Digits) /\ Len(u) = Len(w)
      /\ j \in DOMAIN u /\ u[j] = s[i] /\ w[j] = d
  BY <1>3, <1>7 DEF Differ
<1>10. \A n \in DOMAIN u : n # j => u[n] = w[n]
  <2>1. \A n \in DOMAIN u : n \in Int /\ Len(f) \in Int /\ DOMAIN x = {1}
    BY <1>3, <1>9, LenProperties
  <2>2. \A n \in DOMAIN u : n # j => n - Len(f) \notin DOMAIN x
    BY <2>1
  <2>3. QED
    BY <1>7, <2>2 DEF Differ
<1> HIDE DEF j
<1>11. u[j] = w[j]
  BY <1>8, <1>9, <1>10, MisreadSeen, ZenonT(60)
<1>12. QED
  BY <1>9, <1>11

\* Two neighbours that change places.
LEMMA SwapFound ==
  ASSUME NEW s, s \in Seq(Characters), NEW t, t \in Seq(Characters), NEW i, Swaps(t, s, i),
         s[i] \in Digits, s[i + 1] \in Digits, creditcard(s), creditcard(t)
  PROVE  {s[i], t[i]} = {0, 9}
<1> DEFINE x == <<s[i], s[i + 1]>>
           y == <<s[i + 1], s[i]>>
<1>1. /\ Len(s) \in Nat /\ i \in Nat \ {0} /\ 2 \in Nat /\ i + 2 <= Len(s) + 1
      /\ i \in 1..Len(s) /\ i + 1 \in 1..Len(s) /\ i # i + 1
      /\ s[i] # s[i + 1] /\ Len(t) = Len(s) /\ t[i] = s[i + 1] /\ t[i + 1] = s[i]
      /\ \A n \in 1..Len(s) : n # i /\ n # i + 1 => t[n] = s[n]
  <2>1. Len(s) \in Nat /\ DOMAIN s = 1..Len(s) /\ i \in DOMAIN s /\ i + 1 \in DOMAIN s
    BY LenProperties DEF Swaps
  <2>2. /\ i \in Nat \ {0} /\ i + 2 <= Len(s) + 1
        /\ i \in 1..Len(s) /\ i + 1 \in 1..Len(s) /\ i # i + 1
    BY <2>1
  <2>3. /\ s[i] # s[i + 1] /\ Len(t) = Len(s) /\ t[i] = s[i + 1] /\ t[i + 1] = s[i]
        /\ \A n \in 1..Len(s) : n # i /\ n # i + 1 => t[n] = s[n]
    BY <2>1 DEF Swaps
  <2>4. QED
    BY <2>1, <2>2, <2>3
<1>2. /\ x \in Seq(Digits) /\ Len(x) = 2 /\ x[1] = s[i] /\ x[2] = s[i + 1]
      /\ y \in Seq(Digits) /\ Len(y) = 2 /\ y[1] = s[i + 1] /\ y[2] = s[i]
  OBVIOUS
<1> HIDE DEF x, y
<1>3. ASSUME NEW n \in 1..Len(s)
      PROVE  /\ s[n] = IF i <= n /\ n < i + 2 THEN x[(n - i) + 1] ELSE s[n]
             /\ t[n] = IF i <= n /\ n < i + 2 THEN y[(n - i) + 1] ELSE s[n]
  <2>1. CASE n = i
    <3>1. i <= n /\ n < i + 2 /\ (n - i) + 1 = 1
      BY <1>1, <2>1
    <3>2. QED
      BY <1>1, <1>2, <2>1, <3>1
  <2>2. CASE n = i + 1
    <3>1. i <= n /\ n < i + 2 /\ (n - i) + 1 = 2 /\ n # i
      BY <1>1, <2>2
    <3>2. QED
      BY <1>1, <1>2, <2>2, <3>1
  <2>3. CASE n # i /\ n # i + 1
    <3>1. ~ (i <= n /\ n < i + 2)
      BY <1>1, <2>3
    <3>2. QED
      BY <1>1, <2>3, <3>1
  <2>4. QED
    BY <2>1, <2>2, <2>3
<1>4. PICK f \in Seq(Digits), g \in Seq(Digits) :
        Filter(s, Digits) = Joined(f, x, g) /\ Filter(t, Digits) = Joined(f, y, g)
  <2>1. Replaces(s, s, x, i, 2) /\ Replaces(t, s, y, i, 2)
    BY <1>1, <1>2, <1>3 DEF Replaces
  <2>2. QED
    BY <1>2, <2>1, DigitsOfBoth
<1> DEFINE u == Filter(s, Digits)
           w == Filter(t, Digits)
           j == Len(f) + 1
<1>5. Differ(u, w, Len(f), x, y)
  BY <1>2, <1>4, JoinedDiffer
<1>6. Checksum(u) % 10 = 0 /\ Checksum(w) % 10 = 0
  BY ChecksumOfCard
<1> HIDE DEF u, w
<1>7. /\ u \in Seq(Digits) /\ w \in Seq(Digits) /\ Len(u) = Len(w)
      /\ Len(f) \in Nat /\ j + 1 = Len(f) + 2 /\ DOMAIN u = 1..Len(u) /\ Len(u) \in Nat
      /\ DOMAIN x = {1, 2}
  BY <1>2, <1>5, LenProperties DEF Differ
<1>8. j \in DOMAIN u /\ u[j] = s[i] /\ w[j] = s[i + 1]
  BY <1>2, <1>5, <1>7 DEF Differ
<1>9. j + 1 \in DOMAIN u /\ u[j + 1] = s[i + 1] /\ w[j + 1] = s[i]
  BY <1>2, <1>5, <1>7 DEF Differ
<1>10. \A n \in DOMAIN u : n # j /\ n # j + 1 => u[n] = w[n]
  <2>1. \A n \in DOMAIN u : n # j /\ n # j + 1 => n - Len(f) \notin DOMAIN x
    BY <1>7, SMTT(30)
  <2>2. QED
    BY <1>5, <2>1 DEF Differ
<1> HIDE DEF j
<1>11. Swaps(w, u, j)
  BY <1>7, <1>8, <1>9, <1>10 DEF Swaps
<1>12. {u[j], w[j]} = {0, 9}
  BY <1>6, <1>7, <1>11, SwapSeen
<1>13. t[i] = s[i + 1]
  BY <1>1
<1>14. QED
  BY <1>8, <1>12, <1>13

\* A dash that is put in.
LEMMA DashIgnored ==
  ASSUME NEW s, s \in Seq(Characters), NEW i \in 1..Len(s) + 1
  PROVE  /\ InsertAt(s, i, Dash) \in Seq(Characters)
         /\ creditcard(s) <=> creditcard(InsertAt(s, i, Dash))
<1> DEFINE A == SubSeq(s, 1, i - 1)
           B == SubSeq(s, i, Len(s))
           x == <<Dash>>
<1>1. Len(s) \in Nat /\ i \in Nat /\ 1 <= i /\ \A n \in 1..Len(s) : s[n] \in Characters
  BY LenProperties, ElementOfSeq
<1>2. A \in Seq(Characters) /\ B \in Seq(Characters)
  <2>1. /\ 1 \in Int /\ i - 1 \in Int /\ (\A n \in 1..i - 1 : s[n] \in Characters)
        /\ i \in Int /\ Len(s) \in Int /\ (\A n \in i..Len(s) : s[n] \in Characters)
    BY <1>1
  <2>2. QED
    BY <2>1, SubSeqProperties
<1>3. A \o B = s
  <2>1. /\ 1 \in 1..Len(s) + 1 /\ i - 1 \in (1 - 1)..Len(s) /\ Len(s) \in (i - 1)..Len(s)
        /\ (i - 1) + 1 = i
    BY <1>1
  <2>2. SubSeq(s, 1, i - 1) \o SubSeq(s, (i - 1) + 1, Len(s)) = SubSeq(s, 1, Len(s))
    BY <2>1, ConcatAdjacentSubSeq
  <2>3. QED
    BY <2>1, <2>2, SubSeqFull
<1>4. x \in Seq(Characters) /\ ToSet(x) \cap Digits = {}
  <2>1. Dash \in Characters /\ x \in Seq({Dash})
    BY DEF Characters
  <2>2. ToSet(x) \subseteq {Dash}
    BY <2>1, ToSetType
  <2>3. x \in Seq(Characters)
    BY <2>1
  <2>4. QED
    BY <2>2, <2>3, CardAssumption
<1>5. InsertAt(s, i, Dash) = Joined(A, x, B)
  BY DEF InsertAt, Joined
<1> HIDE DEF A, B, x
<1>6. Filter(s, Digits) = Filter(A, Digits) \o Filter(B, Digits)
  <2>1. A \in Seq(Characters) /\ B \in Seq(Characters)
    BY <1>2
  <2>2. Filter(A \o B, Digits) = Filter(A, Digits) \o Filter(B, Digits)
    BY <2>1, FilterConcat
  <2>3. QED
    BY <1>3, <2>2
<1>7. Filter(Joined(A, x, B), Digits) =
        Joined(Filter(A, Digits), Filter(x, Digits), Filter(B, Digits))
  <2>1. A \in Seq(Characters) /\ x \in Seq(Characters) /\ B \in Seq(Characters)
    BY <1>2, <1>4
  <2>2. QED
    BY <2>1, FilterReplaced
<1>8. Filter(x, Digits) = <<>> /\ Filter(A, Digits) \in Seq(Digits)
  BY <1>2, <1>4, DigitsOf
<1>9. Filter(A, Digits) \o <<>> = Filter(A, Digits)
  BY <1>8, ConcatEmptySeq
<1>10. Filter(Joined(A, x, B), Digits) = Filter(s, Digits)
  BY <1>6, <1>7, <1>8, <1>9 DEF Joined
<1>11. Joined(A, x, B) \in Seq(Characters)
  BY <1>2, <1>4, ConcatProperties DEF Joined
<1>12. QED
  BY <1>5, <1>10, <1>11, ChecksumOfCard

--------------------------------------------------------------------------------

\* A value has characters of a number only.
CardTypes == number \in Seq(Characters)

LEMMA CardStarts == CardInit => CardTypes
<1>1. ASSUME NEW n \in Nat, NEW f \in [1..n -> Digits] PROVE f \in Seq(Characters)
  <2>1. f \in [1..n -> Characters]
    BY DEF Characters
  <2>2. QED
    BY <2>1, SeqDef
<1>2. \A n \in 1..Length : n \in Nat
  BY CardAssumption
<1>3. QED
  BY <1>1, <1>2 DEF CardInit, CardTypes

LEMMA MisreadKeeps == CardTypes /\ misread => CardTypes' /\ ~ (creditcard(number) /\ creditcard(number'))
<1>1. SUFFICES ASSUME CardTypes, misread
               PROVE  CardTypes' /\ ~ (creditcard(number) /\ creditcard(number'))
  OBVIOUS
<1>2. PICK i \in DOMAIN number, d \in Digits :
        number[i] \in Digits \ {d} /\ number' = [number EXCEPT ![i] = d]
  BY <1>1 DEF misread
<1>3. number \in Seq(Characters) /\ i \in 1..Len(number) /\ d \in Characters
  BY <1>1, LenProperties DEF CardTypes, Characters
<1>4. [number EXCEPT ![i] = d] \in Seq(Characters)
  BY <1>3, ExceptSeq
<1>5. ~ (creditcard(number) /\ creditcard([number EXCEPT ![i] = d]))
  BY <1>2, <1>3, MisreadFound
<1>6. QED
  BY <1>2, <1>4, <1>5 DEF CardTypes

LEMMA SwapKeeps ==
  CardTypes /\ swap
    => /\ CardTypes'
       /\ creditcard(number) /\ creditcard(number')
            => \E i \in DOMAIN number : {number[i], number'[i]} = {0, 9}
<1>1. SUFFICES ASSUME CardTypes, swap
               PROVE  /\ CardTypes'
                      /\ creditcard(number) /\ creditcard(number')
                           => \E i \in DOMAIN number : {number[i], number'[i]} = {0, 9}
  OBVIOUS
<1>2. PICK i \in 1..Len(number) - 1 :
        /\ number[i] \in Digits /\ number[i + 1] \in Digits /\ number[i] # number[i + 1]
        /\ number' = [number EXCEPT ![i] = number[i + 1], ![i + 1] = number[i]]
  BY <1>1 DEF swap
<1> DEFINE s == number
           t == number'
<1>3. /\ s \in Seq(Characters) /\ Len(s) \in Nat /\ DOMAIN s = 1..Len(s)
      /\ i \in 1..Len(s) /\ i + 1 \in 1..Len(s) /\ i # i + 1
  BY <1>1, LenProperties DEF CardTypes
<1>4. /\ t \in Seq(Characters) /\ Len(t) = Len(s)
      /\ \A n \in 1..Len(s) : t[n] = IF n = i THEN s[i + 1] ELSE IF n = i + 1 THEN s[i] ELSE s[n]
  <2> DEFINE r == [s EXCEPT ![i] = s[i + 1]]
  <2>1. s[i] \in Characters /\ s[i + 1] \in Characters
    BY <1>2 DEF Characters
  <2>2. /\ r \in Seq(Characters) /\ Len(r) = Len(s)
        /\ \A n \in 1..Len(s) : r[n] = IF n = i THEN s[i + 1] ELSE s[n]
    BY <1>3, <2>1, ExceptSeq
  <2>3. t = [r EXCEPT ![i + 1] = s[i]]
    BY <1>2
  <2> HIDE DEF r
  <2>4. /\ t \in Seq(Characters) /\ Len(t) = Len(r)
        /\ \A n \in 1..Len(r) : t[n] = IF n = i + 1 THEN s[i] ELSE r[n]
    BY <1>3, <2>1, <2>2, <2>3, ExceptSeq
  <2>5. QED
    BY <1>3, <2>2, <2>4
<1>5. creditcard(s) /\ creditcard(t) => {s[i], t[i]} = {0, 9}
  <2> HIDE DEF s, t
  <2>1. SUFFICES ASSUME creditcard(s), creditcard(t) PROVE {s[i], t[i]} = {0, 9}
    OBVIOUS
  <2>2. s[i] \in Digits /\ s[i + 1] \in Digits /\ s[i] # s[i + 1]
    BY <1>2 DEF s
  <2>3. Swaps(t, s, i)
    BY <1>3, <1>4, <2>2 DEF Swaps
  <2>4. s \in Seq(Characters) /\ t \in Seq(Characters)
    BY <1>3, <1>4
  <2>5. QED
    BY <2>1, <2>2, <2>3, <2>4, SwapFound
<1>6. QED
  BY <1>3, <1>4, <1>5 DEF CardTypes

LEMMA DashKeeps == CardTypes /\ dash => CardTypes' /\ (creditcard(number) <=> creditcard(number'))
<1>1. SUFFICES ASSUME CardTypes, dash
               PROVE  CardTypes' /\ (creditcard(number) <=> creditcard(number'))
  OBVIOUS
<1>2. PICK i \in 1..Len(number) + 1 : number' = InsertAt(number, i, Dash)
  BY <1>1 DEF dash
<1>3. QED
  BY <1>1, <1>2, DashIgnored DEF CardTypes

\* However long the number is and wherever its dashes are: the check sum finds a digit that is
\* read wrong, and neighbours that are swapped but for a zero and a nine; and a dash changes
\* nothing (creditcard, jquery.validate.js).
THEOREM CardsAlwaysChecked == CardSpec => CardsChecked
<1>1. CardInit => CardTypes
  BY CardStarts
<1>2. CardTypes /\ [CardNext]_number => CardTypes'
  BY MisreadKeeps, SwapKeeps, DashKeeps DEF CardNext, CardTypes
<1>3. CardTypes /\ [CardNext]_number => [FindsMisread /\ FindsSwap /\ IgnoresDash]_number
  <2>1. CardTypes => FindsMisread
    BY MisreadKeeps DEF FindsMisread
  <2>2. CardTypes => FindsSwap
    BY SwapKeeps DEF FindsSwap
  <2>3. CardTypes => IgnoresDash
    <3>1. \A c : creditcard(c) \in BOOLEAN
      BY DEF creditcard
    <3>2. QED
      BY <3>1, DashKeeps DEF IgnoresDash
  <2>4. QED
    BY <2>1, <2>2, <2>3
<1>4. QED
  BY <1>1, <1>2, <1>3, PTL DEF CardSpec, CardsChecked

--------------------------------------------------------------------------------
(* The rules of a field (ValidateRules).                                              *)

\* Rules by the names of their methods, with parameters of P.
IsRules(rules, P) ==
  /\ rules = [m \in DOMAIN rules |-> rules[m]]
  /\ DOMAIN rules \subseteq MethodNames
  /\ \A m \in DOMAIN rules : rules[m] \in P

\* The rules of the field have parameters, and its attributes say min and max alone.
RulesInv ==
  /\ class \subseteq {"required"}
  /\ IsRules(attribute, Param) /\ DOMAIN attribute \subseteq {"min", "max"}
  /\ IsRules(static, Param)
  /\ entered \in Inputs /\ other \in {Empty, 1}

LEMMA ParamType ==
  \A p \in Param : p.off \in BOOLEAN /\ p.when \in BOOLEAN /\ p.n \in Numbers
<1>1. 1 \in Numbers
  BY RulesAssumption DEF Numbers
<1>2. \A n \in Numbers : Given(n) \in [off : BOOLEAN, n : Numbers, when : BOOLEAN]
  BY DEF Given
<1>3. [Given(1) EXCEPT !.off = TRUE] \in [off : BOOLEAN, n : Numbers, when : BOOLEAN]
  BY <1>1 DEF Given
<1>4. [Given(1) EXCEPT !.when = FALSE] \in [off : BOOLEAN, n : Numbers, when : BOOLEAN]
  BY <1>1 DEF Given
<1>5. QED
  BY <1>2, <1>3, <1>4 DEF Param

LEMMA ExtendType ==
  ASSUME NEW P, NEW f, NEW g, IsRules(f, P), IsRules(g, P)
  PROVE  /\ IsRules(extend(f, g), P)
         /\ DOMAIN extend(f, g) = DOMAIN f \cup DOMAIN g
         /\ \A m \in DOMAIN extend(f, g) : extend(f, g)[m] = IF m \in DOMAIN g THEN g[m] ELSE f[m]
BY DEF extend, IsRules

LEMMA ExtendedBy ==
  \A f, g : IsRules(f, Param) /\ IsRules(g, Param) =>
    /\ IsRules(extend(f, g), Param)
    /\ DOMAIN extend(f, g) = DOMAIN f \cup DOMAIN g
    /\ \A m \in DOMAIN extend(f, g) : extend(f, g)[m] = IF m \in DOMAIN g THEN g[m] ELSE f[m]
BY ExtendType, ZenonT(60)

LEMMA WithoutType ==
  ASSUME NEW P, NEW f, NEW M, IsRules(f, P)
  PROVE  /\ IsRules(Without(f, M), P)
         /\ DOMAIN Without(f, M) = DOMAIN f \ M
         /\ \A m \in DOMAIN f \ M : Without(f, M)[m] = f[m]
BY DEF Without, IsRules

LEMMA NoRulesType == \A P : IsRules(NoRules, P) /\ DOMAIN NoRules = {}
BY DEF NoRules, IsRules

LEMMA RulesInitially == RulesInit => RulesInv
<1> SUFFICES ASSUME RulesInit PROVE RulesInv
  OBVIOUS
<1>1. class \subseteq {"required"} /\ IsRules(static, Param)
  BY NoRulesType DEF RulesInit
<1>2. entered \in Inputs /\ other \in {Empty, 1}
  BY DEF RulesInit, Inputs
<1>3. {0, MaxNumber} \subseteq Numbers
  BY RulesAssumption DEF Numbers
<1>4. ASSUME NEW n \in {0, MaxNumber}
      PROVE  /\ IsRules([min |-> Given(n)], Param) /\ DOMAIN [min |-> Given(n)] \subseteq {"min", "max"}
             /\ IsRules([max |-> Given(n)], Param) /\ DOMAIN [max |-> Given(n)] \subseteq {"min", "max"}
  <2>1. Given(n) \in Param
    BY <1>3 DEF Param
  <2>2. [min |-> Given(n)] = [m \in {"min"} |-> Given(n)]
    OBVIOUS
  <2>3. [max |-> Given(n)] = [m \in {"max"} |-> Given(n)]
    OBVIOUS
  <2>4. QED
    BY <2>1, <2>2, <2>3 DEF IsRules, MethodNames
<1>5. IsRules(attribute, Param) /\ DOMAIN attribute \subseteq {"min", "max"}
  BY <1>4, NoRulesType DEF RulesInit
<1>6. QED
  BY <1>1, <1>2, <1>5 DEF RulesInv

LEMMA RulesStep == RulesInv /\ [RulesNext]_rlvars => RulesInv'
<1> SUFFICES ASSUME RulesInv, [RulesNext]_rlvars PROVE RulesInv'
  OBVIOUS
<1>1. CASE enter
  BY <1>1 DEF RulesInv, IsRules, enter
<1>2. CASE addRule
  <2>1. PICK m \in MethodNames, p \in Param : static' = Add(static, [x \in {m} |-> p])
    BY <1>2 DEF addRule
  <2> DEFINE new == Add(static, [x \in {m} |-> p])
  <2>2. IsRules([x \in {m} |-> p], Param) /\ IsRules(static, Param)
    BY DEF IsRules, RulesInv
  <2>3. IsRules(new, Param)
    BY <2>2, ExtendedBy DEF Add
  <2>4. static' = new
    BY <2>1
  <2>5. UNCHANGED <<class, attribute, entered, other>>
    BY <1>2 DEF addRule
  <2> HIDE DEF new
  <2>6. QED
    BY <2>3, <2>4, <2>5 DEF RulesInv, IsRules
<1>3. CASE removeRules
  <2>1. PICK M : static' = Without(static, M)
    BY <1>3 DEF removeRules, Dropped
  <2>2. IsRules(Without(static, M), Param)
    BY WithoutType DEF RulesInv
  <2>3. QED
    BY <1>3, <2>1, <2>2 DEF RulesInv, IsRules, removeRules
<1>4. CASE UNCHANGED rlvars
  BY <1>4 DEF RulesInv, IsRules, rlvars
<1>5. QED
  BY <1>1, <1>2, <1>3, <1>4 DEF RulesNext

\* What the rules of the field are made of.
LEMMA RulesFrom ==
  ASSUME RulesInv
  PROVE  /\ IsRules(Rules, Numbers)
         /\ \A m \in DOMAIN Rules :
              \/ m \in DOMAIN static /\ ~ static[m].off /\ static[m].when
              \/ m \notin DOMAIN static /\ m \in DOMAIN attribute
              \/ m \notin DOMAIN static /\ m \in class
<1> DEFINE merged == extend(classRules, attribute)
           whole == extend(merged, static)
<1>1. Given(1) \in Param
  <2>1. 1 \in Numbers
    BY RulesAssumption DEF Numbers
  <2>2. QED
    BY <2>1 DEF Param
<1>2. IsRules(classRules, Param) /\ DOMAIN classRules = class
  BY <1>1 DEF classRules, IsRules, RulesInv, MethodNames
<1>3. IsRules(attribute, Param) /\ IsRules(static, Param)
  BY DEF RulesInv
<1>4. IsRules(merged, Param) /\ DOMAIN merged = class \cup DOMAIN attribute
  BY <1>2, <1>3, ExtendType
<1> HIDE DEF merged
<1>5. /\ IsRules(whole, Param)
      /\ DOMAIN whole = DOMAIN merged \cup DOMAIN static
      /\ \A m \in DOMAIN whole : whole[m] = IF m \in DOMAIN static THEN static[m] ELSE merged[m]
  BY <1>3, <1>4, ExtendedBy
<1>6. Rules = normalizeRules(whole)
  BY DEF Rules, merged
<1> HIDE DEF whole
<1>7. /\ DOMAIN Rules = {m \in DOMAIN whole : ~ whole[m].off /\ whole[m].when}
      /\ Rules = [m \in DOMAIN Rules |-> whole[m].n]
  BY <1>6 DEF normalizeRules
<1>8. IsRules(Rules, Numbers)
  <2>1. \A m \in DOMAIN Rules : m \in MethodNames /\ Rules[m] = whole[m].n /\ whole[m] \in Param
    BY <1>5, <1>7 DEF IsRules
  <2>2. \A m \in DOMAIN Rules : Rules[m] \in Numbers
    BY <2>1, ParamType
  <2>3. QED
    BY <1>7, <2>1, <2>2 DEF IsRules
<1>9. QED
  BY <1>4, <1>5, <1>7, <1>8

\* The range of two bounds, neither of which is zero, refuses what one of them refuses.
LEMMA RangeSaysBoth ==
  ASSUME entered \in Inputs, NEW a \in Numbers, NEW b \in Numbers
  PROVE  OutOf(<<a, b>>) <=> Refuses("min", a) \/ Refuses("max", b)
BY RulesAssumption DEF OutOf, Refuses, optional, Inputs, Numbers

LEMMA RangesSayBoth ==
  ASSUME entered \in Inputs, NEW f, IsRules(f, Numbers)
  PROVE  CheckRanges(f) <=> Refused(f)
<1>1. CASE DOMAIN Ranges(f) = {}
  BY <1>1 DEF CheckRanges
<1>2. CASE DOMAIN Ranges(f) # {}
  <2>1. {"min", "max"} \subseteq DOMAIN f /\ Ranges(f) = [range |-> <<f["min"], f["max"]>>]
    BY <1>2 DEF Ranges
  <2>2. f["min"] \in Numbers /\ f["max"] \in Numbers
    BY <2>1 DEF IsRules
  <2>3. Ranges(f).range = <<f["min"], f["max"]>>
    BY <2>1
  <2>4. CheckRanges(f) <=> Refused(Without(f, {"min", "max"})) \/ OutOf(<<f["min"], f["max"]>>)
    BY <1>2, <2>3 DEF CheckRanges
  <2>5. Refused(Without(f, {"min", "max"}))
          <=> \E m \in DOMAIN f \ {"min", "max"} : Refuses(m, f[m])
    <3>1. DOMAIN Without(f, {"min", "max"}) = DOMAIN f \ {"min", "max"}
      BY DEF Without
    <3>2. \A m \in DOMAIN f \ {"min", "max"} : Without(f, {"min", "max"})[m] = f[m]
      BY DEF Without
    <3>3. QED
      BY <3>1, <3>2 DEF Refused
  <2>6. OutOf(<<f["min"], f["max"]>>) <=> Refuses("min", f["min"]) \/ Refuses("max", f["max"])
    BY <2>2, RangeSaysBoth
  <2>7. Refused(f) <=> \/ \E m \in DOMAIN f \ {"min", "max"} : Refuses(m, f[m])
                       \/ Refuses("min", f["min"]) \/ Refuses("max", f["max"])
    BY <2>1 DEF Refused
  <2>8. QED
    BY <2>4, <2>5, <2>6, <2>7
<1>3. QED
  BY <1>1, <1>2

LEMMA RangesAlwaysAgree == RulesInv => RangesAgree
<1> SUFFICES ASSUME RulesInv PROVE RangesAgree
  OBVIOUS
<1>1. CheckRanges(Rules) <=> Refused(Rules)
  BY RulesFrom, RangesSayBoth DEF RulesInv
<1>2. Refused(Rules) \in BOOLEAN /\ CheckRanges(Rules) \in BOOLEAN
  BY DEF Refused, CheckRanges
<1>3. QED
  BY <1>1, <1>2, Zenon DEF RangesAgree

\* An empty field is refused by what says that it is required, or equal to another.
LEMMA OptionalAlwaysPasses == RulesInv => OptionalPasses
<1> SUFFICES ASSUME RulesInv, entered = Empty, Refused(Rules)
             PROVE  \/ "required" \in DOMAIN static /\ ~ static["required"].off /\ static["required"].when
                    \/ "required" \notin DOMAIN static /\ "required" \in class
                    \/ /\ other # Empty /\ "equalTo" \in DOMAIN static
                       /\ ~ static["equalTo"].off /\ static["equalTo"].when
  BY DEF OptionalPasses
<1>1. PICK m \in DOMAIN Rules : Refuses(m, Rules[m])
  BY DEF Refused
<1>2. m = "required" \/ (m = "equalTo" /\ other # Empty)
  BY <1>1 DEF Refuses, optional
<1>3. DOMAIN attribute \subseteq {"min", "max"} /\ class \subseteq {"required"}
  BY DEF RulesInv
<1>4. \/ m \in DOMAIN static /\ ~ static[m].off /\ static[m].when
      \/ m \notin DOMAIN static /\ m \in DOMAIN attribute
      \/ m \notin DOMAIN static /\ m \in class
  BY RulesFrom
<1>5. QED
  BY <1>2, <1>3, <1>4

LEMMA AlwaysPutsBack == RulesInv => PutBack
<1> SUFFICES ASSUME RulesInv, NEW M \in SUBSET DOMAIN static
             PROVE  Add(Dropped(static, M), Removed(static, M)) = static
  BY DEF PutBack
<1>1. static = [m \in DOMAIN static |-> static[m]]
  BY DEF RulesInv, IsRules
<1>2. QED
  BY <1>1 DEF Add, extend, Dropped, Removed, Without

\* Whatever rules a page gives a field, in its classes, its attributes and its settings,
\* however large their numbers are and whatever the field holds: a range says what min and
\* max say, an empty field is refused by required and equalTo alone, and what
\* rules("remove") returns puts the rules back.
THEOREM RulesAlwaysKept == RulesSpec => []RulesKept
<1>1. RulesInv => RulesKept
  BY RangesAlwaysAgree, OptionalAlwaysPasses, AlwaysPutsBack DEF RulesKept
<1>2. QED
  BY <1>1, RulesInitially, RulesStep, PTL DEF RulesSpec

================================================================================
