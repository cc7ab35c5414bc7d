----------------------------- MODULE CertCache ------------------------------
(***************************************************************************)
(* Certificates made from the secret (security/cert_cache.go, cert.go): a  *)
(* cache, a lock for the roots and one for all others, whose making needs  *)
(* the root, and a pair of files for each.  The key of a certificate comes *)
(* from the secret and its hosts; its signature is new every time.         *)
(***************************************************************************)
EXTENDS Integers

CONSTANTS
  CertIds,     (* "root" and hosts                                          *)
  Askers,      (* goroutines that call ObtainCertificate                    *)
  MaxMade      (* BOUND: certificates made                                  *)

ASSUME CertAssumption == "root" \in CertIds /\ "none" \notin Askers

NoCert == 0
Torn == 0 - 1     (* a file that was opened for writing and not written *)

VARIABLES
  certCache,   (* [id -> certificate: its number, or NoCert]                *)
  crtFile,     (* [id -> certificate, NoCert or Torn]                       *)
  keyFile,     (* [id -> "none", "torn" or "key"]                           *)
  genLock,     (* certGenLock: [0..1 -> asker or "none"]                    *)
  asker,       (* [a -> its calls: [id, at, cert], the second for the root  *)
               (* that the first needs]                                     *)
  certs,       (* number of certificates made                               *)
  given        (* history: [id -> certificate given out since the start]    *)

certVars == <<certCache, crtFile, keyFile, genLock, asker, certs, given>>

NoAsk == [id |-> "root", at |-> "off", cert |-> NoCert]
Depth(a) == IF asker[a][2].at = "off" THEN 1 ELSE 2
CertTop(a) == asker[a][Depth(a)]
LockOf(id) == IF id = "root" THEN 1 ELSE 0

CertInit ==
  /\ certCache = [i \in CertIds |-> NoCert]
  /\ crtFile = [i \in CertIds |-> NoCert]
  /\ keyFile = [i \in CertIds |-> "none"]
  /\ genLock = [k \in 0..1 |-> "none"] /\ asker = [a \in Askers |-> [d \in 1..2 |-> NoAsk]]
  /\ certs = 0 /\ given = [i \in CertIds |-> NoCert]

Call(id) == [id |-> id, at |-> "load", cert |-> NoCert]
Put(a, at, cert) ==
  asker' = [asker EXCEPT ![a][Depth(a)] = [id |-> CertTop(a).id, at |-> at,
                                           cert |-> cert]]
CertAt(a, at) == CertTop(a).at = at
Goto(a, at) == Put(a, at, CertTop(a).cert)

(* Return to the call that needs the root, or to whoever asked.            *)
ReturnCert(a) ==
  asker' = [asker EXCEPT ![a] =
             [@ EXCEPT ![1] = IF Depth(a) = 1 THEN NoAsk
                                 ELSE [id |-> asker[a][1].id, at |-> "made",
                                       cert |-> NoCert],
                       ![2] = NoAsk]]

-----------------------------------------------------------------------------
Obtain(a, id) ==
  /\ CertAt(a, "off") /\ asker' = [asker EXCEPT ![a][1] = Call(id)]
  /\ UNCHANGED <<certCache, crtFile, keyFile, genLock, certs, given>>

(* The cache, before the lock.                                             *)
LoadCached(a) ==
  /\ CertAt(a, "load")
  /\ LET id == CertTop(a).id IN
     IF certCache[id] # NoCert
     THEN /\ ReturnCert(a)
          /\ given' = [given EXCEPT ![id] = certCache[id]]
     ELSE Goto(a, "lock") /\ UNCHANGED given
  /\ UNCHANGED <<certCache, crtFile, keyFile, genLock, certs>>

LockGen(a) ==
  /\ CertAt(a, "lock") /\ genLock[LockOf(CertTop(a).id)] = "none"
  /\ genLock' = [genLock EXCEPT ![LockOf(CertTop(a).id)] = a]
  /\ Goto(a, "again")
  /\ UNCHANGED <<certCache, crtFile, keyFile, certs, given>>

(* MUTANT: the cache is not looked at again.                               *)
LoadAgainNot(a) ==
  /\ CertAt(a, "again") /\ Goto(a, "gen")
  /\ UNCHANGED <<certCache, crtFile, keyFile, genLock, certs, given>>

(* Under the lock: the cache again, the files, or a new certificate, for   *)
(* which a host needs the root.  A pair loads when both files are whole:   *)
(* the key is always the same, so the halves of two runs fit.              *)
LoadAgain(a) ==
  /\ CertAt(a, "again")
  /\ LET id == CertTop(a).id
         whole == crtFile[id] > NoCert /\ keyFile[id] = "key"
         have == IF certCache[id] # NoCert THEN certCache[id] ELSE crtFile[id]
     IN  IF certCache[id] # NoCert \/ whole
         THEN /\ certCache' = [certCache EXCEPT ![id] = have]
              /\ given' = [given EXCEPT ![id] = have]
              /\ genLock' = [genLock EXCEPT ![LockOf(id)] = "none"]
              /\ ReturnCert(a)
         ELSE Goto(a, "gen") /\ UNCHANGED <<certCache, given, genLock>>
  /\ UNCHANGED <<crtFile, keyFile, certs>>

(* GenerateCertWithSecret: the root signs itself, IssueCertificate has the *)
(* root obtained first.                                                    *)
Generate1(a) ==
  /\ CertAt(a, "gen")
  /\ IF CertTop(a).id = "root" THEN Goto(a, "made")
     ELSE asker' = [asker EXCEPT ![a][2] = Call("root")]
  /\ UNCHANGED <<certCache, crtFile, keyFile, genLock, certs, given>>

Sign(a) ==
  /\ CertAt(a, "made") /\ certs < MaxMade /\ certs' = certs + 1
  /\ Put(a, "key", certs + 1)
  /\ UNCHANGED <<certCache, crtFile, keyFile, genLock, given>>

(* Save: the key, then the certificate; a file is emptied before it is     *)
(* written.                                                                *)
SaveKey(a) ==
  /\ LET id == CertTop(a).id IN
     \/ CertAt(a, "key") /\ keyFile' = [keyFile EXCEPT ![id] = "torn"] /\ Goto(a, "key2")
     \/ CertAt(a, "key2") /\ keyFile' = [keyFile EXCEPT ![id] = "key"] /\ Goto(a, "crt")
  /\ UNCHANGED <<certCache, crtFile, genLock, certs, given>>
SaveCrt(a) ==
  /\ LET id == CertTop(a).id IN
     \/ CertAt(a, "crt") /\ crtFile' = [crtFile EXCEPT ![id] = Torn] /\ Goto(a, "crt2")
     \/ /\ CertAt(a, "crt2") /\ crtFile' = [crtFile EXCEPT ![id] = CertTop(a).cert]
        /\ Goto(a, "store")
  /\ UNCHANGED <<certCache, keyFile, genLock, certs, given>>

(* LoadOrStore, and the lock.                                              *)
StoreCert(a) ==
  /\ CertAt(a, "store")
  /\ LET id == CertTop(a).id
         have == IF certCache[id] # NoCert THEN certCache[id] ELSE CertTop(a).cert
     IN  /\ certCache' = [certCache EXCEPT ![id] = have]
         /\ given' = [given EXCEPT ![id] = have]
         /\ genLock' = [genLock EXCEPT ![LockOf(id)] = "none"]
         /\ ReturnCert(a)
  /\ UNCHANGED <<crtFile, keyFile, certs>>

(* The process ends, for log.Fatalf after a file that cannot be saved or   *)
(* for any other reason, and starts again with the files.                  *)
CertCrash ==
  /\ certs # 0
  /\ certCache' = [i \in CertIds |-> NoCert]
  /\ genLock' = [k \in 0..1 |-> "none"] /\ asker' = [a \in Askers |-> [d \in 1..2 |-> NoAsk]]
  /\ UNCHANGED <<crtFile, keyFile, certs, given>>

CertStep(a) ==
  ~CertAt(a, "off") /\
    (LoadCached(a) \/ LockGen(a) \/ LoadAgain(a) \/ Generate1(a) \/ Sign(a)
      \/ SaveKey(a) \/ SaveCrt(a) \/ StoreCert(a))
CertNext ==
  \/ \E a \in Askers : CertStep(a) \/ \E id \in CertIds : Obtain(a, id)
  \/ CertCrash

(* Goroutines run and locks are handed on.                                 *)
CertFairness == \A a \in Askers : SF_certVars(CertStep(a))

-----------------------------------------------------------------------------
(* Whoever asks for the same hosts is given the same certificate, before   *)
(* and after a restart, wherever the process ended: nothing is given out   *)
(* that is not in its files, and files that are whole are not made again.  *)
SameCertificate ==
  [][\A i \in CertIds : given[i] # NoCert => given'[i] = given[i]]_certVars

(* What is given out is in its files.                                      *)
GivenIsSaved(i) ==
  given[i] # NoCert => crtFile[i] = given[i] /\ keyFile[i] = "key"

(* Everybody who asks is answered: a host's certificate is made under its  *)
(* lock and needs the root, which has a lock of its own.                   *)
ObtainsReturn ==
  \A a \in Askers :
    ~CertAt(a, "off") ~> (CertAt(a, "off") \/ certs = MaxMade)

(* The certificate that is given out is the same for everybody, before and *)
(* after a restart, and is saved (ObtainCertificate).                      *)
CertsCorrect == SameCertificate /\ [](\A i \in CertIds : GivenIsSaved(i))
=============================================================================
