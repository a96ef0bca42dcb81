------------------------- MODULE ManagerConfigProofs -------------------------
(***************************************************************************)
(* What the manager serves, for any configurations, handlers and           *)
(* certificates: the type invariant, that Current reports the certificate  *)
(* a handshake gets, and that a replacement which inherits its settings    *)
(* keeps it.                                                               *)
(***************************************************************************)
EXTENDS ManagerConfig, TLAPS

\* An HTTPS configuration names its certificate, as a value or in PEM form: a
\* TLSConfig alone is served as it is, whatever a rotation publishes.
CertificatesNamed == \A c \in ServerConfigs : c.https => c.certificate # Unset \/ c.pem # Unset

\* No configuration carries PEM material, which normalized loads again over a
\* rotated certificate.
NoPEM == \A c \in ServerConfigs : c.pem = Unset

\* A resolved configuration holds its certificate exactly when it is HTTPS.
Resolved(c) == IF c.https THEN c.certificate # Unset
                          ELSE c.certificate = Unset /\ c.pem = Unset /\ c.tls = Unset

\* The two copies of the certificate a generation keeps agree.
Consistent(g) ==
  /\ Resolved(g.config)
  /\ g.certificate = g.config.certificate
  /\ g.installed = (g.config.certificate # Unset)

\* What is in service and what waits for its probe is resolved and consistent, and
\* the manager's own settings are those of the active generation.
Inductive ==
  /\ Resolved(config)
  /\ active # Unset => Consistent(active) /\ active.config = config
  /\ pending # Unset => Consistent(pending)

\* Without PEM material, a candidate that inherits its settings has the
\* certificate and the TLS configuration of the manager's.
Inheritance ==
  /\ config.pem = Unset
  /\ pending # Unset => pending.config.pem = Unset
  /\ pending # Unset /\ inherits
       => pending.config.certificate = config.certificate /\ pending.config.tls = config.tls

-----------------------------------------------------------------------------
\* normalized replaces the handler and the certificate only.
LEMMA NormalizedFields ==
  ASSUME NEW c \in SettingsWith(Handlers \cup {NotFound, Unset})
  PROVE  /\ Normalized(c) \in Settings
         /\ Normalized(c).address = c.address /\ Normalized(c).https = c.https
         /\ Normalized(c).pem = c.pem /\ Normalized(c).tls = c.tls
         /\ Normalized(c).certificate = (IF c.pem # Unset THEN c.pem ELSE c.certificate)
         /\ Normalized(c).handler = (IF c.handler = Unset THEN NotFound ELSE c.handler)
<1> DEFINE n == [c EXCEPT !.certificate = IF c.pem # Unset THEN c.pem ELSE c.certificate,
                          !.handler = IF c.handler = Unset THEN NotFound ELSE c.handler]
<1>1. Normalized(c) = n
  BY DEF Normalized, SettingsWith
<1>2. n \in Settings
  BY DEF Settings, SettingsWith
<1>3. /\ n.address = c.address /\ n.https = c.https /\ n.pem = c.pem /\ n.tls = c.tls
      /\ n.certificate = (IF c.pem # Unset THEN c.pem ELSE c.certificate)
      /\ n.handler = (IF c.handler = Unset THEN NotFound ELSE c.handler)
  BY DEF SettingsWith
<1>. QED
  BY <1>1, <1>2, <1>3

\* configFor takes everything but the handler and the certificate from the request's
\* settings, or the manager's own.
LEMMA ConfigForFields ==
  ASSUME config \in Settings, handler \in Handlers \cup {NotFound},
         NEW s \in ServerConfigs \cup {config, Unset}, NEW h \in Handlers \cup {Unset},
         NEW base, base = IF s = Unset THEN config ELSE s
  PROVE  /\ ConfigFor(s, h) \in Settings
         /\ ConfigFor(s, h).https = base.https
         /\ ConfigFor(s, h).pem = base.pem /\ ConfigFor(s, h).tls = base.tls
         /\ ConfigFor(s, h).certificate = IF base.pem # Unset THEN base.pem ELSE base.certificate
         /\ base = config \/ base \in ServerConfigs
<1>. USE ManagerConfigAssumption
<1> DEFINE d == [base EXCEPT !.handler = IF h # Unset THEN h
                                         ELSE IF base.handler = Unset THEN handler ELSE base.handler]
<1>1. base = config \/ base \in ServerConfigs
  OBVIOUS
<1>2. base \in SettingsWith(Handlers \cup {NotFound, Unset})
  BY <1>1 DEF Settings, SettingsWith
<1>3. ConfigFor(s, h) = Normalized(d)
  BY <1>2 DEF ConfigFor, SettingsWith
<1>4. d \in SettingsWith(Handlers \cup {NotFound, Unset})
  BY <1>2 DEF SettingsWith
<1>5. d.https = base.https /\ d.pem = base.pem /\ d.tls = base.tls /\ d.certificate = base.certificate
  BY <1>2 DEF SettingsWith
<1>. HIDE DEF d
<1>. QED
  BY <1>1, <1>3, <1>4, <1>5, NormalizedFields

\* prepareGeneration stores the certificate of the settings in the generation.
LEMMA GenerationFields ==
  ASSUME NEW c \in Settings, handler \in Handlers \cup {NotFound}
  PROVE  /\ Generation(c) \in Generations
         /\ Generation(c).config = c /\ Generation(c).certificate = c.certificate
         /\ Generation(c).installed = (c.certificate # Unset)
BY DEF Generation, Generations, Settings, SettingsWith

\* RotateCertificate on the active generation.
Rotated(g, c) == [g EXCEPT !.certificate = c, !.config.certificate = c]

\* A rotation changes the certificate of a generation, and of its settings.
LEMMA RotationFields ==
  ASSUME NEW g \in Generations, NEW c \in Certificates
  PROVE  /\ Rotated(g, c) \in Generations
         /\ Rotated(g, c).config = [g.config EXCEPT !.certificate = c]
         /\ Rotated(g, c).config.certificate = c /\ Rotated(g, c).config.https = g.config.https
         /\ Rotated(g, c).certificate = c /\ Rotated(g, c).installed = g.installed
<1> DEFINE s == [g.config EXCEPT !.certificate = c]
<1>1. g.config \in Settings
  BY DEF Generations
<1>2. s \in Settings /\ s.certificate = c /\ s.https = g.config.https
  BY <1>1 DEF Settings, SettingsWith
<1>3. PICK r : r = Rotated(g, c)
  OBVIOUS
<1>4. r = [g EXCEPT !.certificate = c, !.config.certificate = c]
  BY <1>3 DEF Rotated
<1>5. r.config = s /\ r.certificate = c /\ r.installed = g.installed /\ r.handler = g.handler
  BY <1>4 DEF Generations
<1>6. r = [config |-> s, handler |-> g.handler, certificate |-> c, installed |-> g.installed]
  BY <1>4 DEF Generations
<1>. HIDE DEF s
<1>7. r \in Generations
  BY <1>2, <1>6 DEF Generations
<1>. QED
  BY <1>2, <1>3, <1>5, <1>7 DEF s

-----------------------------------------------------------------------------
\* NewManager normalizes a valid configuration.
LEMMA InitHolds ==
  ASSUME Init
  PROVE  TypeOK /\ (CertificatesNamed => Inductive) /\ (NoPEM => Inheritance)
<1>. USE ManagerConfigAssumption
<1>1. PICK c \in ServerConfigs : config = Normalized(c)
  BY DEF Init
<1>2. c \in SettingsWith(Handlers \cup {NotFound, Unset})
  BY DEF SettingsWith
<1>3. TypeOK
  BY <1>1, <1>2, NormalizedFields DEF Init, TypeOK, Settings, SettingsWith
<1>4. CertificatesNamed => Inductive
  BY <1>1, <1>2, NormalizedFields DEF Init, Inductive, Resolved, CertificatesNamed
<1>5. NoPEM => Inheritance
  BY <1>1, <1>2, NormalizedFields DEF Init, Inheritance, NoPEM
<1>. QED
  BY <1>3, <1>4, <1>5

\* Every step keeps the settings and the generations typed.
LEMMA TypePreserved ==
  ASSUME TypeOK, [Next]_vars
  PROVE  TypeOK'
<1>. USE ManagerConfigAssumption
<1>. USE DEF TypeOK
<1>1. ASSUME NEW s \in ServerConfigs \cup {config, Unset}, NEW h \in Handlers \cup {Unset},
             ReplaceBegins(s, h)
      PROVE  TypeOK'
  <2>1. ConfigFor(s, h) \in Settings
    BY ConfigForFields
  <2>2. Generation(ConfigFor(s, h)) \in Generations
    BY <2>1, GenerationFields
  <2>. QED
    BY <1>1, <2>2 DEF ReplaceBegins
<1>2. CASE Promotes
  BY <1>2 DEF Promotes, Generations, Settings, SettingsWith
<1>3. CASE Rejects
  BY <1>3 DEF Rejects
<1>4. ASSUME NEW c \in Certificates, RotateCertificate(c) PROVE TypeOK'
  <2>1. active' \in Generations
    BY <1>4, RotationFields DEF RotateCertificate, Rotated
  <2>2. config' \in Settings
    BY <1>4 DEF RotateCertificate, Settings, SettingsWith
  <2>. QED
    BY <1>4, <2>1, <2>2 DEF RotateCertificate
<1>5. CASE Shutdown
  BY <1>5 DEF Shutdown
<1>6. CASE UNCHANGED vars
  BY <1>6 DEF vars
<1>. QED
  BY <1>1, <1>2, <1>3, <1>4, <1>5, <1>6 DEF Next

\* Every step keeps the copies of the certificate together.
LEMMA InductivePreserved ==
  ASSUME CertificatesNamed, TypeOK, Inductive, [Next]_vars
  PROVE  Inductive'
<1>. USE ManagerConfigAssumption
<1>1. ASSUME NEW s \in ServerConfigs \cup {config, Unset}, NEW h \in Handlers \cup {Unset},
             ReplaceBegins(s, h)
      PROVE  Inductive'
  <2> DEFINE c == ConfigFor(s, h)
             base == IF s = Unset THEN config ELSE s
  <2>1. /\ c \in Settings /\ c.https = base.https /\ c.pem = base.pem /\ c.tls = base.tls
        /\ c.certificate = IF base.pem # Unset THEN base.pem ELSE base.certificate
        /\ base = config \/ base \in ServerConfigs
    BY ConfigForFields DEF TypeOK
  <2>2. /\ pending' = Generation(c) /\ config' = config /\ active' = active
    BY <1>1 DEF ReplaceBegins
  <2>. HIDE DEF c, base
  <2>3. Resolved(c)
    BY <2>1 DEF Inductive, Resolved, CertificatesNamed
  <2>4. Consistent(Generation(c))
    BY <2>1, <2>3, GenerationFields DEF Consistent, TypeOK
  <2>. QED
    BY <2>2, <2>4 DEF Inductive
<1>2. CASE Promotes
  BY <1>2 DEF Promotes, Inductive, Consistent
<1>3. CASE Rejects
  BY <1>3 DEF Rejects, Inductive
<1>4. ASSUME NEW c \in Certificates, RotateCertificate(c) PROVE Inductive'
  <2>1. /\ active \in Generations /\ active.config.https /\ active.config = config
        /\ Consistent(active) /\ config \in Settings
    BY <1>4 DEF RotateCertificate, Inductive, TypeOK
  <2>2. active' = Rotated(active, c)
    BY <1>4 DEF RotateCertificate, Rotated
  <2>3. /\ active'.config = [config EXCEPT !.certificate = c]
        /\ active'.config.certificate = c /\ active'.config.https = active.config.https
        /\ active'.certificate = c /\ active'.installed = active.installed
    BY <1>4, <2>1, <2>2, RotationFields
  <2>4. config' = active'.config /\ pending' = pending /\ pending = Unset
    BY <1>4, <2>3 DEF RotateCertificate
  <2>5. Consistent(active')
    BY <2>1, <2>3 DEF Consistent, Resolved
  <2>. QED
    BY <2>4, <2>5 DEF Inductive, Consistent
<1>5. CASE Shutdown
  BY <1>5 DEF Shutdown, Inductive
<1>6. CASE UNCHANGED vars
  BY <1>6 DEF vars, Inductive
<1>. QED
  BY <1>1, <1>2, <1>3, <1>4, <1>5, <1>6 DEF Next

\* Every step keeps the settings without PEM material, and with them what an
\* inheriting candidate inherits: the manager's settings cannot change under it.
LEMMA InheritancePreserved ==
  ASSUME NoPEM, TypeOK, Inheritance, [Next]_vars
  PROVE  Inheritance'
<1>. USE ManagerConfigAssumption
<1>1. ASSUME NEW s \in ServerConfigs \cup {config, Unset}, NEW h \in Handlers \cup {Unset},
             ReplaceBegins(s, h)
      PROVE  Inheritance'
  <2> DEFINE c == ConfigFor(s, h)
             base == IF s = Unset THEN config ELSE s
  <2>1. /\ c \in Settings /\ c.pem = base.pem /\ c.tls = base.tls
        /\ c.certificate = IF base.pem # Unset THEN base.pem ELSE base.certificate
        /\ base = config \/ base \in ServerConfigs
        /\ s = Unset => base = config
    BY ConfigForFields DEF TypeOK
  <2>2. /\ pending' = Generation(c) /\ config' = config /\ inherits' = (s = Unset)
    BY <1>1 DEF ReplaceBegins
  <2>. HIDE DEF c, base
  <2>3. pending'.config = c
    BY <2>1, <2>2, GenerationFields DEF TypeOK
  <2>. QED
    BY <2>1, <2>2, <2>3 DEF Inheritance, NoPEM
<1>2. CASE Promotes
  BY <1>2 DEF Promotes, Inheritance
<1>3. CASE Rejects
  BY <1>3 DEF Rejects, Inheritance
<1>4. ASSUME NEW c \in Certificates, RotateCertificate(c) PROVE Inheritance'
  BY <1>4 DEF RotateCertificate, Inheritance, TypeOK, Settings, SettingsWith
<1>5. CASE Shutdown
  BY <1>5 DEF Shutdown, Inheritance
<1>6. CASE UNCHANGED vars
  BY <1>6 DEF vars, Inheritance
<1>. QED
  BY <1>1, <1>2, <1>3, <1>4, <1>5, <1>6 DEF Next

-----------------------------------------------------------------------------
\* Settings, generations and flags keep their types: configFor and RotateCertificate
\* never leave a field of another kind (manager.go:326-341, 631-657).
THEOREM TypeCorrect == Spec => []TypeOK
<1>1. Init => TypeOK
  BY InitHolds
<1>2. TypeOK /\ [Next]_vars => TypeOK'
  BY TypePreserved
<1>. QED
  BY <1>1, <1>2, PTL DEF Spec

\* Through replacements and rotations in any order, the settings of the manager, of
\* the active generation and the certificate its handshakes answer with stay
\* together (manager.go:393-402, 652-657).
THEOREM InductiveCorrect ==
  ASSUME CertificatesNamed
  PROVE  Spec => []Inductive
<1>1. Init => Inductive
  BY InitHolds
<1>2. TypeOK /\ Inductive /\ [Next]_vars => Inductive'
  BY InductivePreserved
<1>. QED
  BY <1>1, <1>2, TypeCorrect, PTL DEF Spec

\* The fingerprint Current reports is that of the certificate a handshake gets, for
\* settings that name their certificate (manager.go:475-504, 653-656, 681-694).
THEOREM ReportCorrect ==
  ASSUME CertificatesNamed
  PROVE  Spec => []ServedIsReported
<1>1. Inductive => ServedIsReported
  BY DEF Inductive, Consistent, Resolved, ServedIsReported, Served, Reported, Fingerprint
<1>. QED
  BY <1>1, InductiveCorrect, PTL

\* A replacement that inherits its settings answers handshakes with the certificate
\* of the generation it displaces, rotated ones included, when no PEM material is
\* loaded again over it (manager.go:299-307, 326-331).
THEOREM InheritCorrect ==
  ASSUME CertificatesNamed, NoPEM
  PROVE  Spec => InheritedReplaceKeeps
<1>1. Init => Inheritance
  BY InitHolds
<1>2. TypeOK /\ Inheritance /\ [Next]_vars => Inheritance'
  BY InheritancePreserved
<1>3. Spec => []Inheritance
  BY <1>1, <1>2, TypeCorrect, PTL DEF Spec
<1>4. ASSUME Inductive, Inheritance, active # Unset, pending # Unset, active' = pending, inherits
      PROVE  Served(active') = Served(active)
  BY <1>4 DEF Inductive, Inheritance, Consistent, Served
<1>5. Inductive /\ Inheritance /\ [Next]_vars
        => [active # Unset /\ pending # Unset /\ active' = pending /\ inherits
              => Served(active') = Served(active)]_vars
  BY <1>4
<1>. QED
  BY <1>3, <1>5, InductiveCorrect, PTL DEF Spec, InheritedReplaceKeeps
=============================================================================
