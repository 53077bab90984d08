----------------------------- MODULE TeamProofs -----------------------------
(***************************************************************************)
(* Theorems about Team, for teams of any size, any number of handlers at a *)
(* time and any number of sign-ups: only handlers that overlap take the    *)
(* last admin away, and only sign-ups that overlap make a second founder.  *)
(***************************************************************************)
EXTENDS Team, FiniteSetTheorems, TLAPS

\* Where several admins are counted, one of them is not x.
LEMMA AnotherAdmin ==
    ASSUME NEW x, ~(Cardinality(Admins) <= 1)
    PROVE  \E y \in Admins : y # x
  <1> SUFFICES ASSUME \A y \in Admins : y = x
               PROVE  FALSE
    OBVIOUS
  <1>1. Admins \subseteq {x}
    OBVIOUS
  <1>2. IsFiniteSet({x}) /\ Cardinality({x}) = 1
    BY FS_Singleton
  <1>3. Cardinality(Admins) <= Cardinality({x})
    BY <1>1, <1>2, FS_Subset
  <1> QED
    BY <1>2, <1>3

\* Types, action by action.
LEMMA TypeStep ==
    TypeOK /\ [Next]_vars => TypeOK'
  <1> SUFFICES ASSUME TypeOK, [Next]_vars
               PROVE  TypeOK'
    OBVIOUS
  <1> USE DEF handlerVars, founderVars, Position, FirstRole, TypeOK
  <1>1. CASE UNCHANGED vars
    BY <1>1 DEF vars
  <1>2. ASSUME NEW h \in Handler, Authorize(h)
        PROVE  TypeOK'
    BY <1>2 DEF Authorize
  <1>3. ASSUME NEW h \in Handler, Add(h)
        PROVE  TypeOK'
    BY <1>3 DEF Add, Joining
  <1>4. ASSUME NEW h \in Handler, Load(h)
        PROVE  TypeOK'
    BY <1>4 DEF Load
  <1>5. ASSUME NEW h \in Handler, Count(h)
        PROVE  TypeOK'
    BY <1>5 DEF Count
  <1>6. ASSUME NEW h \in Handler, Write(h)
        PROVE  TypeOK'
    BY <1>6 DEF Write, Deciding
  <1>7. ASSUME NEW f \in Founder, LookUpTenant(f)
        PROVE  TypeOK'
    BY <1>7 DEF LookUpTenant
  <1>8. ASSUME NEW f \in Founder, Found(f)
        PROVE  TypeOK'
    BY <1>8 DEF Found
  <1>9. ASSUME NEW f \in Founder, CountFirst(f)
        PROVE  TypeOK'
    BY <1>9 DEF CountFirst
  <1>10. ASSUME NEW f \in Founder, Join(f)
        PROVE  TypeOK'
    BY <1>10 DEF Join, Joining
  <1>11. ASSUME NEW f \in Founder, JoinRefused(f)
        PROVE  TypeOK'
    BY <1>11 DEF JoinRefused
  <1> QED
    BY <1>1, <1>2, <1>3, <1>4, <1>5, <1>6, <1>7, <1>8, <1>9, <1>10, <1>11
       DEF Next, TeamPage, SignUp

\* A tenant is made by Found, which gives it an admin, and never goes away.
LEMMA TenantFirstStep ==
    TypeOK /\ TenantFirst /\ [Next]_vars => TenantFirst'
  <1> SUFFICES ASSUME TypeOK, TenantFirst, [Next]_vars
               PROVE  TenantFirst'
    OBVIOUS
  <1> USE DEF handlerVars, founderVars, Position, FirstRole, TypeOK, TenantFirst,
              Team, Admins
  <1>1. CASE UNCHANGED vars
    BY <1>1 DEF vars
  <1>2. ASSUME NEW h \in Handler, Authorize(h)
        PROVE  TenantFirst'
    BY <1>2 DEF Authorize
  <1>3. ASSUME NEW h \in Handler, Add(h)
        PROVE  TenantFirst'
    BY <1>3 DEF Add
  <1>4. ASSUME NEW h \in Handler, Load(h)
        PROVE  TenantFirst'
    BY <1>4 DEF Load
  <1>5. ASSUME NEW h \in Handler, Count(h)
        PROVE  TenantFirst'
    BY <1>5 DEF Count
  <1>6. ASSUME NEW h \in Handler, Write(h)
        PROVE  TenantFirst'
    BY <1>6 DEF Write
  <1>7. ASSUME NEW f \in Founder, LookUpTenant(f)
        PROVE  TenantFirst'
    BY <1>7 DEF LookUpTenant
  <1>8. ASSUME NEW f \in Founder, Found(f)
        PROVE  TenantFirst'
    BY <1>8 DEF Found
  <1>9. ASSUME NEW f \in Founder, CountFirst(f)
        PROVE  TenantFirst'
    BY <1>9 DEF CountFirst
  <1>10. ASSUME NEW f \in Founder, Join(f)
        PROVE  TenantFirst'
    BY <1>10 DEF Join
  <1>11. ASSUME NEW f \in Founder, JoinRefused(f)
        PROVE  TenantFirst'
    BY <1>11 DEF JoinRefused
  <1> QED
    BY <1>1, <1>2, <1>3, <1>4, <1>5, <1>6, <1>7, <1>8, <1>9, <1>10, <1>11
       DEF Next, TeamPage, SignUp

\* Every write marks the handlers it crosses, and what is not a write only
\* adds rows to the team.
LEMMA KnowsItsRowStep ==
    TypeOK /\ KnowsItsRow /\ [Next]_vars => KnowsItsRow'
  <1> SUFFICES ASSUME TypeOK, KnowsItsRow, [Next]_vars
               PROVE  KnowsItsRow'
    OBVIOUS
  <1> USE DEF handlerVars, founderVars, Position, FirstRole, TypeOK, KnowsItsRow,
              Team, Admins
  <1>1. CASE UNCHANGED vars
    BY <1>1 DEF vars
  <1>2. ASSUME NEW h \in Handler, Authorize(h)
        PROVE  KnowsItsRow'
    BY <1>2 DEF Authorize
  <1>3. ASSUME NEW h \in Handler, Add(h)
        PROVE  KnowsItsRow'
    BY <1>3 DEF Add
  <1>4. ASSUME NEW h \in Handler, Load(h)
        PROVE  KnowsItsRow'
    BY <1>4 DEF Load
  <1>5. ASSUME NEW h \in Handler, Count(h)
        PROVE  KnowsItsRow'
    <2>1. CASE Cardinality(Admins) <= 1
      BY <1>5, <2>1 DEF Count
    <2>2. CASE ~(Cardinality(Admins) <= 1)
      <3>1. \E x \in Admins : x # whom[h]
        BY <2>2, AnotherAdmin
      <3> QED
        BY <1>5, <2>2, <3>1 DEF Count
    <2> QED
      BY <2>1, <2>2
  <1>6. ASSUME NEW h \in Handler, Write(h)
        PROVE  KnowsItsRow'
    BY <1>6 DEF Write, Deciding
  <1>7. ASSUME NEW f \in Founder, LookUpTenant(f)
        PROVE  KnowsItsRow'
    BY <1>7 DEF LookUpTenant
  <1>8. ASSUME NEW f \in Founder, Found(f)
        PROVE  KnowsItsRow'
    BY <1>8 DEF Found
  <1>9. ASSUME NEW f \in Founder, CountFirst(f)
        PROVE  KnowsItsRow'
    BY <1>9 DEF CountFirst
  <1>10. ASSUME NEW f \in Founder, Join(f)
        PROVE  KnowsItsRow'
    BY <1>10 DEF Join
  <1>11. ASSUME NEW f \in Founder, JoinRefused(f)
        PROVE  KnowsItsRow'
    BY <1>11 DEF JoinRefused
  <1> QED
    BY <1>1, <1>2, <1>3, <1>4, <1>5, <1>6, <1>7, <1>8, <1>9, <1>10, <1>11
       DEF Next, TeamPage, SignUp

\* Every INSERT marks the sign-ups it precedes; a write adds nobody.
LEMMA FindsNobodyStep ==
    TypeOK /\ TenantFirst /\ FindsNobody /\ [Next]_vars => FindsNobody'
  <1> SUFFICES ASSUME TypeOK, TenantFirst, FindsNobody, [Next]_vars
               PROVE  FindsNobody'
    OBVIOUS
  <1> USE DEF handlerVars, founderVars, Position, FirstRole, TypeOK, TenantFirst,
              FindsNobody, Deserted, Team
  <1>1. CASE UNCHANGED vars
    BY <1>1 DEF vars
  <1>2. ASSUME NEW h \in Handler, Authorize(h)
        PROVE  FindsNobody'
    BY <1>2 DEF Authorize
  <1>3. ASSUME NEW h \in Handler, Add(h)
        PROVE  FindsNobody'
    BY <1>3 DEF Add, Joining
  <1>4. ASSUME NEW h \in Handler, Load(h)
        PROVE  FindsNobody'
    BY <1>4 DEF Load
  <1>5. ASSUME NEW h \in Handler, Count(h)
        PROVE  FindsNobody'
    BY <1>5 DEF Count
  <1>6. ASSUME NEW h \in Handler, Write(h)
        PROVE  FindsNobody'
    BY <1>6 DEF Write
  <1>7. ASSUME NEW f \in Founder, LookUpTenant(f)
        PROVE  FindsNobody'
    BY <1>7 DEF LookUpTenant
  <1>8. ASSUME NEW f \in Founder, Found(f)
        PROVE  FindsNobody'
    BY <1>8 DEF Found
  <1>9. ASSUME NEW f \in Founder, CountFirst(f)
        PROVE  FindsNobody'
    BY <1>9 DEF CountFirst, Open
  <1>10. ASSUME NEW f \in Founder, Join(f)
        PROVE  FindsNobody'
    BY <1>10 DEF Join, Joining
  <1>11. ASSUME NEW f \in Founder, JoinRefused(f)
        PROVE  FindsNobody'
    BY <1>11 DEF JoinRefused
  <1> QED
    BY <1>1, <1>2, <1>3, <1>4, <1>5, <1>6, <1>7, <1>8, <1>9, <1>10, <1>11
       DEF Next, TeamPage, SignUp

\* Only Write takes an admin away; a handler that knows its row leaves one.
LEMMA LossStep ==
    TypeOK /\ KnowsItsRow /\ AdminLossNeedsOverlap /\ [Next]_vars
        => AdminLossNeedsOverlap'
  <1> SUFFICES ASSUME TypeOK, KnowsItsRow, AdminLossNeedsOverlap, [Next]_vars
               PROVE  AdminLossNeedsOverlap'
    OBVIOUS
  <1> USE DEF handlerVars, founderVars, Position, FirstRole, TypeOK, KnowsItsRow,
              AdminLossNeedsOverlap, Admins
  <1>1. CASE UNCHANGED vars
    BY <1>1 DEF vars
  <1>2. ASSUME NEW h \in Handler, Authorize(h)
        PROVE  AdminLossNeedsOverlap'
    BY <1>2 DEF Authorize
  <1>3. ASSUME NEW h \in Handler, Add(h)
        PROVE  AdminLossNeedsOverlap'
    BY <1>3 DEF Add
  <1>4. ASSUME NEW h \in Handler, Load(h)
        PROVE  AdminLossNeedsOverlap'
    BY <1>4 DEF Load
  <1>5. ASSUME NEW h \in Handler, Count(h)
        PROVE  AdminLossNeedsOverlap'
    BY <1>5 DEF Count
  <1>6. ASSUME NEW h \in Handler, Write(h)
        PROVE  AdminLossNeedsOverlap'
    BY <1>6 DEF Write
  <1>7. ASSUME NEW f \in Founder, LookUpTenant(f)
        PROVE  AdminLossNeedsOverlap'
    BY <1>7 DEF LookUpTenant
  <1>8. ASSUME NEW f \in Founder, Found(f)
        PROVE  AdminLossNeedsOverlap'
    <2>1. CASE tenant
      BY <1>8, <2>1 DEF Found
    <2>2. CASE ~tenant
      <3>1. PICK x \in Row : role' = [role EXCEPT ![x] = "admin"]
        BY <1>8, <2>2 DEF Found
      <3>2. x \in Admins'
        BY <3>1
      <3> QED
        BY <3>2
    <2> QED
      BY <2>1, <2>2
  <1>9. ASSUME NEW f \in Founder, CountFirst(f)
        PROVE  AdminLossNeedsOverlap'
    BY <1>9 DEF CountFirst
  <1>10. ASSUME NEW f \in Founder, Join(f)
        PROVE  AdminLossNeedsOverlap'
    BY <1>10 DEF Join
  <1>11. ASSUME NEW f \in Founder, JoinRefused(f)
        PROVE  AdminLossNeedsOverlap'
    BY <1>11 DEF JoinRefused
  <1> QED
    BY <1>1, <1>2, <1>3, <1>4, <1>5, <1>6, <1>7, <1>8, <1>9, <1>10, <1>11
       DEF Next, TeamPage, SignUp

LEMMA InitInductive == Init => IInv
  <1> SUFFICES ASSUME Init
               PROVE  IInv
    OBVIOUS
  <1> USE DEF Init
  <1>1. TypeOK
    BY DEF TypeOK, Position
  <1>2. TenantFirst
    BY DEF TenantFirst
  <1>3. KnowsItsRow /\ FindsNobody
    BY DEF KnowsItsRow, FindsNobody
  <1>4. AdminLossNeedsOverlap
    BY DEF AdminLossNeedsOverlap
  <1> QED
    BY <1>1, <1>2, <1>3, <1>4 DEF IInv

LEMMA Inductive == IInv /\ [Next]_vars => IInv'
  BY TypeStep, TenantFirstStep, KnowsItsRowStep, FindsNobodyStep, LossStep DEF IInv

LEMMA Invariance == Spec => []IInv
  BY InitInductive, Inductive, PTL DEF Spec

\* Every variable keeps its type.
THEOREM TeamTyped == Spec => []TypeOK
  <1>1. IInv => TypeOK
    BY DEF IInv
  <1> QED
    BY <1>1, Invariance, PTL

\* The tests of the team page hold against everything but overlapping handlers:
\* one at a time, they never take the last admin away.
THEOREM LastAdminStays == Spec => []AdminLossNeedsOverlap
  <1>1. IInv => AdminLossNeedsOverlap
    BY DEF IInv
  <1> QED
    BY <1>1, Invariance, PTL

\* What FoundersOverlap says of a step.
JoinsFairly ==
    \A f \in Founder :
        signup[f] # "joined" /\ signup'[f] = "joined" => Deserted(f) \/ f \in late

\* A second founder comes only from sign-ups that overlap.
THEOREM SecondFounderOverlaps == Spec => FoundersOverlap
  <1>1. IInv /\ [Next]_vars => [JoinsFairly]_vars
    <2> SUFFICES ASSUME IInv, Next
                 PROVE  JoinsFairly
      OBVIOUS
    <2> USE DEF IInv, TypeOK, TenantFirst, FindsNobody, JoinsFairly, handlerVars,
                founderVars
    <2>1. ASSUME NEW h \in Handler, TeamPage(h)
          PROVE  JoinsFairly
      BY <2>1 DEF TeamPage, Authorize, Add, Load, Count, Write
    <2>2. ASSUME NEW f \in Founder, LookUpTenant(f) \/ CountFirst(f) \/ JoinRefused(f)
          PROVE  JoinsFairly
      BY <2>2 DEF LookUpTenant, CountFirst, JoinRefused
    <2>3. ASSUME NEW f \in Founder, Found(f), ~tenant, NEW g \in Founder,
                 signup[g] # "joined", signup'[g] = "joined"
          PROVE  Deserted(g)
      <3>1. g = f /\ host[g] = "tenant" /\ Team = {}
        BY <2>3 DEF Found
      <3> QED
        BY <3>1 DEF Deserted
    <2>4. ASSUME NEW f \in Founder, Join(f)
          PROVE  JoinsFairly
      BY <2>4 DEF Join
    <2> QED
      BY ZenonT(40), <2>1, <2>2, <2>3, <2>4 DEF Next, SignUp, Found
  <1> QED
    BY <1>1, Invariance, PTL DEF Spec, FoundersOverlap, JoinsFairly
=============================================================================
