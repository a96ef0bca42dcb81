---------------------------- MODULE ManagerConfig ----------------------------
(***************************************************************************)
(* What http.Manager serves: how a request is resolved against the         *)
(* manager's own settings, and which handler and certificate the public    *)
(* gets while requests and certificate rotations alternate.                *)
(*                                                                         *)
(* m.mu is held from the resolution of a request to the promotion or       *)
(* rejection of its candidate (module HttpManager), so a rotation happens  *)
(* before or after it.  Draining generations are not seen here, and a call *)
(* that is refused changes nothing.  The built-in runtime is used.         *)
(***************************************************************************)
EXTENDS Naturals

CONSTANTS
  Unset,         \* a field, or a pointer, that is nil
  Handlers,      \* application handlers
  NotFound,      \* nethttp.NotFoundHandler()
  Certificates,  \* certificates with their private key
  ServerConfigs, \* the valid configurations applications ask for
  Ephemeral      \* addresses with port 0, which are never in use

\* A configuration whose handler is one of handlers.
SettingsWith(handlers) ==
  [address : {c.address : c \in ServerConfigs}, https : BOOLEAN,
   pem : Certificates \cup {Unset}, certificate : Certificates \cup {Unset},
   tls : Certificates \cup {Unset}, handler : handlers]
Settings == SettingsWith(Handlers \cup {NotFound})

ASSUME ManagerConfigAssumption ==
  /\ Unset \notin Handlers \cup {NotFound} \cup Certificates
  /\ \A c \in ServerConfigs :
       /\ c \in SettingsWith(Handlers \cup {Unset})
       /\ c.https <=> (c.pem # Unset \/ c.certificate # Unset \/ c.tls # Unset)

VARIABLES
  config,   \* m.config
  handler,  \* m.handler
  active,   \* m.active
  pending,  \* the candidate, while Replace verifies it
  inherits, \* its request named no server configuration
  closed    \* m.closed

vars == <<config, handler, active, pending, inherits, closed>>

\* Mutant: no default handler.
NormalizedUnhandled(c) == [c EXCEPT !.certificate = IF c.pem # Unset THEN c.pem ELSE @]
\* CertificatePEM is loaded into Certificate, whatever Certificate was.
Normalized(c) ==
  [c EXCEPT !.certificate = IF c.pem # Unset THEN c.pem ELSE @,
            !.handler = IF @ = Unset THEN NotFound ELSE @]

\* configFor, with the server and the handler of the request.
ConfigFor(server, h) ==
  LET base == IF server = Unset THEN config ELSE server
  IN  Normalized([base EXCEPT !.handler = IF h # Unset THEN h
                                          ELSE IF @ = Unset THEN handler ELSE @])

Fingerprint(c) == c.certificate

\* equivalentConfig against the active generation: no handler, no TLSConfig.
Equivalent(c) ==
  /\ active # Unset
  /\ c.address = active.config.address /\ c.https = active.config.https
  /\ Fingerprint(c) = Fingerprint(active.config)

AddressInUse(c) ==
  active # Unset /\ active.config.address = c.address /\ c.address \notin Ephemeral

\* prepareGeneration wraps the manager's handler; makeTLSConfig answers handshakes
\* from the generation's certificate pointer only when it was given a Certificate.
Generation(c) ==
  [config |-> c, handler |-> handler, certificate |-> c.certificate,
   installed |-> c.certificate # Unset]

\* What a TLS handshake with the generation gets.
Served(g) == IF g.installed THEN g.certificate ELSE g.config.tls

\* The fingerprint Current reports.
Reported == IF active = Unset THEN Unset ELSE Fingerprint(active.config)

Generations ==
  [config : Settings, handler : Handlers \cup {NotFound},
   certificate : Certificates \cup {Unset}, installed : BOOLEAN]

TypeOK ==
  /\ config \in Settings
  /\ handler \in Handlers \cup {NotFound}
  /\ active = Unset \/ active \in Generations
  /\ pending = Unset \/ pending \in Generations
  /\ inherits \in BOOLEAN /\ closed \in BOOLEAN

\* NewManager.
Init ==
  /\ \E c \in ServerConfigs : config = Normalized(c)
  /\ handler = config.handler
  /\ active = Unset /\ pending = Unset
  /\ inherits = FALSE /\ closed = FALSE

-----------------------------------------------------------------------------
\* Start asks for m.config.  An equivalent configuration, or an address in use,
\* is a call that changes nothing.
ReplaceBegins(server, h) ==
  LET c == ConfigFor(server, h) IN
  /\ pending = Unset /\ ~closed
  /\ ~Equivalent(c) /\ ~AddressInUse(c)
  /\ pending' = Generation(c)
  /\ inherits' = (server = Unset)
  /\ UNCHANGED <<config, handler, active, closed>>

Promotes ==
  /\ pending # Unset
  /\ active' = pending /\ pending' = Unset
  /\ config' = pending.config /\ handler' = pending.config.handler
  /\ UNCHANGED <<inherits, closed>>

\* The probe fails or the caller cancels.
Rejects ==
  /\ pending # Unset
  /\ pending' = Unset
  /\ UNCHANGED <<config, handler, active, inherits, closed>>

\* Mutant: the manager's own settings are forgotten.
RotateActiveOnly(c) ==
  /\ pending = Unset /\ active # Unset /\ active.config.https
  /\ active' = [active EXCEPT !.certificate = c, !.config.certificate = c]
  /\ UNCHANGED <<config, handler, pending, inherits, closed>>
\* Mutant: the generation's own settings are forgotten.
RotateUnreported(c) ==
  /\ pending = Unset /\ active # Unset /\ active.config.https
  /\ active' = [active EXCEPT !.certificate = c]
  /\ config' = [config EXCEPT !.certificate = c]
  /\ UNCHANGED <<handler, pending, inherits, closed>>
\* The certificate is complete and matches its key.
RotateCertificate(c) ==
  /\ pending = Unset /\ active # Unset /\ active.config.https
  /\ active' = [active EXCEPT !.certificate = c, !.config.certificate = c]
  /\ config' = [config EXCEPT !.certificate = c]
  /\ UNCHANGED <<handler, pending, inherits, closed>>

Shutdown ==
  /\ pending = Unset /\ ~closed
  /\ closed' = TRUE /\ active' = Unset
  /\ UNCHANGED <<config, handler, pending, inherits>>

Next ==
  \/ \E s \in ServerConfigs \cup {config, Unset}, h \in Handlers \cup {Unset} : ReplaceBegins(s, h)
  \/ Promotes \/ Rejects
  \/ \E c \in Certificates : RotateCertificate(c)
  \/ Shutdown

Spec == Init /\ [][Next]_vars

-----------------------------------------------------------------------------
\* Through replacements and rotations in any order, the fingerprint Current
\* reports is that of the certificate a handshake gets, as long as the settings
\* name their certificate as such (manager.go:491, 653-656, 692).
ServedIsReported == active # Unset => Served(active) = Reported

\* A request that names no server settings inherits what is in service, rotated
\* certificates included: it displaces the active generation by none that would
\* answer handshakes with another certificate (manager.go:328-330, 656).
InheritedReplaceKeeps ==
  [][active # Unset /\ pending # Unset /\ active' = pending /\ inherits
       => Served(active') = Served(active)]_vars

-----------------------------------------------------------------------------
(* What a comment of the code says, and the code does not keep.            *)

\* "ReplaceRequest describes one complete desired HTTP generation."
ServesRequestedHandler == active # Unset => active.handler = active.config.handler
=============================================================================
