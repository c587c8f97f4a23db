-------------------------------- MODULE Drivers --------------------------------
(***************************************************************************)
(* One passenger who wants to drive: the application, its documents, the    *)
(* vehicles, and what administrators decide.  The service of the drivers,   *)
(* that of the vehicles and that of the administrators write the same rows, *)
(* each from a copy it has read before.                                     *)
(*                                                                         *)
(* The file of a document is stored under a path that only its type and     *)
(* its driver make up: a new one takes the place of the old one at once,    *)
(* and the row that says whether it was approved is written afterwards.     *)
(***************************************************************************)
EXTENDS Integers, FiniteSets, Access

CONSTANTS
    Tipos,                  \* TipoDocumentoEnum
    Vehicles,               \* plates
    Cooldown, Window,       \* REJECTION_COOLDOWN_DAYS, REACTIVATION_WINDOW_DAYS
    Workers, Offers,        \* request slots, and the operations each may serve
    Overlap,                \* bound: <<running, called>>, which may run beside which
    MaxTime, MaxFiles, MaxFaults    \* bounds: days, uploads of a type, handlers lost

\* The handlers that decide on the application.
Decisions == {"applyAsDriver", "updateVehicle", "approveDriver", "rejectDriver", "suspendDriver"}
Ops == Decisions \cup {"uploadDocument", "approveDocument", "rejectDocument",
                       "createVehicle", "disableVehicle", "reactivateVehicle"}

\* Handlers that write, or judge by, the same rows.
Kinds ==
    [decisions |-> Decisions,
     documents |-> {"uploadDocument", "approveDocument", "rejectDocument", "approveDriver"}]

ASSUME DriverAssumption ==
    /\ Tipos # {} /\ Vehicles # {}
    /\ Tipos \cap {"estado", "fechaRechazo"} = {}     \* apart from the columns of a driver
    /\ Cooldown \in Nat /\ Window \in Nat
    /\ Offers \in [Workers -> SUBSET Ops]
    /\ Overlap \subseteq Ops \X Ops
    /\ IsFiniteSet(Workers)
    /\ MaxTime \in Nat /\ MaxFiles \in Nat \ {0} /\ MaxFaults \in Nat

VARIABLES
    now,
    driver,     \* the row of drivers, "none" while there is none
    rol,        \* rol of the AuthUser
    alias,      \* prefix of the alias of the BusinessUser
    document,   \* the rows of driver_documents
    file,       \* the files in the storage, numbered in the order of their uploads
    vehicle,    \* the rows of vehicles
    proc, faults,
    reviewed,   \* the file an administrator has approved last (history)
    overlapped  \* of what kind two handlers have been under way at a time (history)

vars == <<now, driver, rol, alias, document, file, vehicle, proc, faults, reviewed, overlapped>>

-----------------------------------------------------------------------------

EstadoConductor == {"PENDIENTE", "APROBADO", "RECHAZADO", "SUSPENDIDO"}
EstadoDocumento == {"PENDIENTE", "APROBADO", "RECHAZADO"}

Driver == [estado : EstadoConductor \cup {"none"}, fechaRechazo : -1..MaxTime]
Vehicle == [isActivo : BOOLEAN, updatedAt : 0..MaxTime]

Never == -1     \* fechaRechazo: null
NoDriver == [estado |-> "none", fechaRechazo |-> Never]
Unknown == [isActivo |-> FALSE, updatedAt |-> -1]   \* no such vehicle

Stages == {"idle", "insert", "save", "flush", "cascade", "commit", "alias",
           "store", "find", "insertDocument", "saveDocument", "flushDocument",
           "insertVehicle", "saveVehicle", "flushVehicle"}

AnyTipo == CHOOSE t \in Tipos : TRUE
AnyVehicle == CHOOSE v \in Vehicles : TRUE

Proc ==
    [op : Ops \cup {"none"}, at : Stages, t : Tipos, v : Vehicles,
     copy : Driver, docs : [Tipos -> EstadoDocumento \cup {"none"}],
     car : Vehicle \cup {Unknown},
     cols : SUBSET (DOMAIN NoDriver \cup Tipos \cup {"isActivo", "estado"}),
     changed : BOOLEAN,         \* updateVehicle: the request names other values
     seen : 0..MaxFiles]        \* approveDocument: the file that was looked at

Idle == [op |-> "none", at |-> "idle", t |-> AnyTipo, v |-> AnyVehicle,
         copy |-> NoDriver, docs |-> [t \in Tipos |-> "none"], car |-> Unknown,
         cols |-> {}, changed |-> FALSE, seen |-> 0]

Init ==
    /\ now = 0
    /\ driver = NoDriver
    /\ rol = "PASAJERO"
    /\ alias = "Pasajero"
    /\ document = [t \in Tipos |-> "none"]
    /\ file = [t \in Tipos |-> 0]
    /\ vehicle = [v \in Vehicles |-> Unknown]
    /\ proc = [w \in Workers |-> Idle]
    /\ faults = 0
    /\ reviewed = [t \in Tipos |-> 0]
    /\ overlapped = {}

Called(w, op) ==
    /\ op \in Offers[w] /\ proc[w].at = "idle"
    /\ \A u \in Workers : proc[u].at # "idle" => <<proc[u].op, op>> \in Overlap
    /\ overlapped' = overlapped \cup
            {k \in DOMAIN Kinds : op \in Kinds[k] /\ \E u \in Workers : proc[u].op \in Kinds[k]}

\* The user of the application calls: RolesGuard.
CalledBySelf(w, op) == Called(w, op) /\ MayCall(rol, TRUE, op)

Become(w, record) == proc' = [proc EXCEPT ![w] = record]
Done(w) == Become(w, Idle)
Call(op, at) == [Idle EXCEPT !.op = op, !.at = at]

\* save(entity) compares the copy with the row, which it reads again; the UPDATE
\* names the columns that differ.
Differing(copy, row) == {c \in DOMAIN row : copy[c] # row[c]}
Updated(copy, row, cols) == [c \in DOMAIN row |-> IF c \in cols THEN copy[c] ELSE row[c]]

Rows == <<driver, rol, alias, document, file, vehicle>>
Past == <<now, faults, reviewed, overlapped>>

-----------------------------------------------------------------------------
(* The application. *)

\* Mutant: the wait is over on the day before.
ApplyEarly(w) ==
    /\ CalledBySelf(w, "applyAsDriver")
    /\ \/ /\ driver.estado \in {"none", "SUSPENDIDO"}
          /\ Become(w, Call("applyAsDriver", "insert"))
       \/ /\ driver.estado = "RECHAZADO"
          /\ now - driver.fechaRechazo >= Cooldown - 1
          /\ Become(w, [Call("applyAsDriver", "save") EXCEPT
                !.copy = [estado |-> "PENDIENTE", fechaRechazo |-> Never]])
    /\ UNCHANGED <<Rows, now, faults, reviewed>>

\* A SUSPENDIDO one is asked no question: he goes on like who has never applied.
ApplyAsDriver(w) ==
    /\ CalledBySelf(w, "applyAsDriver")
    /\ \/ /\ driver.estado \in {"none", "SUSPENDIDO"}
          /\ Become(w, Call("applyAsDriver", "insert"))
       \/ /\ driver.estado = "RECHAZADO"
          /\ now - driver.fechaRechazo >= Cooldown
          /\ Become(w, [Call("applyAsDriver", "save") EXCEPT
                !.copy = [estado |-> "PENDIENTE", fechaRechazo |-> Never]])
    /\ UNCHANGED <<Rows, now, faults, reviewed>>

\* UNIQUE (businessUserId) refuses the second row.
InsertDriver(w) ==
    /\ proc[w].at = "insert"
    /\ driver' = IF driver.estado = "none" THEN [driver EXCEPT !.estado = "PENDIENTE"] ELSE driver
    /\ Done(w)
    /\ UNCHANGED <<rol, alias, document, file, vehicle, Past>>

SaveDriver(w) ==
    /\ proc[w].at = "save"
    /\ Become(w, [proc[w] EXCEPT !.at = "flush", !.cols = Differing(proc[w].copy, driver)])
    /\ UNCHANGED <<Rows, Past>>

FlushDriver(w) ==
    /\ proc[w].at = "flush"
    /\ driver' = Updated(proc[w].copy, driver, proc[w].cols)
    /\ IF proc[w].op \in {"updateVehicle", "suspendDriver"}
       THEN Become(w, Call(proc[w].op, "alias"))
       ELSE Done(w)
    /\ UNCHANGED <<rol, alias, document, file, vehicle, Past>>

\* updateAlias.
UpdateAlias(w) ==
    /\ proc[w].at = "alias"
    /\ alias' = IF proc[w].op = "approveDriver" THEN "Conductor" ELSE "Pasajero"
    /\ Done(w)
    /\ UNCHANGED <<driver, rol, document, file, vehicle, Past>>

-----------------------------------------------------------------------------
(* The documents. *)

\* Bound: the files of a type that are stored, or will be.
FilesLeft(t) ==
    file[t] + Cardinality({u \in Workers : proc[u].at = "store" /\ proc[u].t = t}) < MaxFiles

\* Mutant: documents may be replaced whatever was decided.
UploadAnytime(w, t) ==
    /\ CalledBySelf(w, "uploadDocument")
    /\ driver.estado # "none"
    /\ FilesLeft(t)
    /\ Become(w, [Call("uploadDocument", "store") EXCEPT !.t = t])
    /\ UNCHANGED <<Rows, now, faults, reviewed>>

UploadDocument(w, t) ==
    /\ CalledBySelf(w, "uploadDocument")
    /\ driver.estado = "PENDIENTE"
    /\ FilesLeft(t)
    /\ Become(w, [Call("uploadDocument", "store") EXCEPT !.t = t])
    /\ UNCHANGED <<Rows, now, faults, reviewed>>

\* storageService.upload: folder and filename are those of the last file.
StoreFile(w) ==
    /\ proc[w].at = "store"
    /\ file' = [file EXCEPT ![proc[w].t] = @ + 1]
    /\ Become(w, [proc[w] EXCEPT !.at = "find"])
    /\ UNCHANGED <<driver, rol, alias, document, vehicle, Past>>

FindDocument(w) ==
    LET t == proc[w].t
    IN  /\ proc[w].at = "find"
        /\ Become(w, [proc[w] EXCEPT
                !.at = IF document[t] = "none" THEN "insertDocument" ELSE "saveDocument",
                !.docs[t] = "PENDIENTE"])
        /\ UNCHANGED <<Rows, Past>>

\* UNIQUE (driverId, tipo) refuses the second row.
InsertDocument(w) ==
    LET t == proc[w].t
    IN  /\ proc[w].at = "insertDocument"
        /\ document' = [document EXCEPT ![t] = IF @ = "none" THEN "PENDIENTE" ELSE @]
        /\ Done(w)
        /\ UNCHANGED <<driver, rol, alias, file, vehicle, Past>>

\* approveDocument and rejectDocument ask neither for the state of the document
\* nor for that of its driver.
DecideDocument(w, t, op, estado) ==
    /\ Called(w, op)
    /\ document[t] # "none"
    /\ Become(w, [Call(op, "saveDocument") EXCEPT
            !.t = t, !.docs[t] = estado, !.seen = file[t]])
    /\ UNCHANGED <<Rows, now, faults, reviewed>>

ApproveDocument(w, t) == DecideDocument(w, t, "approveDocument", "APROBADO")
RejectDocument(w, t) == DecideDocument(w, t, "rejectDocument", "RECHAZADO")

SaveDocument(w) ==
    LET t == proc[w].t
    IN  /\ proc[w].at = "saveDocument"
        /\ Become(w, [proc[w] EXCEPT !.at = "flushDocument",
                !.cols = IF proc[w].docs[t] # document[t] THEN {"estado"} ELSE {}])
        /\ UNCHANGED <<Rows, Past>>

FlushDocument(w) ==
    LET t == proc[w].t
    IN  /\ proc[w].at = "flushDocument"
        /\ document' = [document EXCEPT ![t] =
                IF "estado" \in proc[w].cols THEN proc[w].docs[t] ELSE @]
        /\ reviewed' = [reviewed EXCEPT ![t] =
                IF proc[w].op = "approveDocument" THEN proc[w].seen ELSE @]
        /\ Done(w)
        /\ UNCHANGED <<driver, rol, alias, file, vehicle, now, faults, overlapped>>

-----------------------------------------------------------------------------
(* The vehicles. *)

Active(estado) == estado \in {"APROBADO", "PENDIENTE"}

CreateVehicle(w, v) ==
    /\ CalledBySelf(w, "createVehicle")
    /\ IF rol = "PASAJERO" THEN Active(driver.estado) ELSE driver.estado = "APROBADO"
    /\ vehicle[v] = Unknown
    /\ Become(w, [Call("createVehicle", "insertVehicle") EXCEPT !.v = v])
    /\ UNCHANGED <<Rows, now, faults, reviewed>>

InsertVehicle(w) ==
    LET v == proc[w].v
    IN  /\ proc[w].at = "insertVehicle"
        /\ vehicle' = [vehicle EXCEPT ![v] =
                IF @ = Unknown THEN [isActivo |-> TRUE, updatedAt |-> now] ELSE @]
        /\ Done(w)
        /\ UNCHANGED <<driver, rol, alias, document, file, Past>>

\* getApprovedDriver; both rows are copied here, and written in turn.
UpdateVehicle(w, v, changed) ==
    /\ CalledBySelf(w, "updateVehicle")
    /\ driver.estado = "APROBADO"
    /\ vehicle[v] # Unknown
    /\ Become(w, [Call("updateVehicle", "saveVehicle") EXCEPT
            !.v = v, !.car = vehicle[v], !.changed = changed,
            !.copy = [driver EXCEPT !.estado = "PENDIENTE"]])
    /\ UNCHANGED <<Rows, now, faults, reviewed>>

SetActive(w, v, op, isActivo) ==
    /\ CalledBySelf(w, op)
    /\ Active(driver.estado)
    /\ vehicle[v] # Unknown
    /\ Become(w, [Call(op, "saveVehicle") EXCEPT
            !.v = v, !.car = [vehicle[v] EXCEPT !.isActivo = isActivo]])
    /\ UNCHANGED <<Rows, now, faults, reviewed>>

DisableVehicle(w, v) == SetActive(w, v, "disableVehicle", FALSE)

\* validateReactivation counts from the last change of the row.
ReactivateVehicle(w, v) ==
    /\ ~vehicle[v].isActivo
    /\ now - vehicle[v].updatedAt <= Window
    /\ SetActive(w, v, "reactivateVehicle", TRUE)

SaveVehicle(w) ==
    /\ proc[w].at = "saveVehicle"
    /\ Become(w, [proc[w] EXCEPT !.at = "flushVehicle",
            !.cols = IF proc[w].car.isActivo # vehicle[proc[w].v].isActivo THEN {"isActivo"} ELSE {}])
    /\ UNCHANGED <<Rows, Past>>

\* updatedAt is set by every UPDATE that has a column to write.
FlushVehicle(w) ==
    LET v == proc[w].v
        car == proc[w].car
    IN  /\ proc[w].at = "flushVehicle"
        /\ vehicle' = [vehicle EXCEPT ![v] =
                [isActivo |-> IF "isActivo" \in proc[w].cols THEN car.isActivo ELSE @.isActivo,
                 updatedAt |-> IF proc[w].cols # {} \/ proc[w].changed THEN now ELSE @.updatedAt]]
        /\ IF proc[w].op = "updateVehicle"
           THEN Become(w, [Call("updateVehicle", "save") EXCEPT !.copy = proc[w].copy])
           ELSE Done(w)
        /\ UNCHANGED <<driver, rol, alias, document, file, Past>>

-----------------------------------------------------------------------------
(* The administrators. *)

\* approveDriver reads the driver with his documents, in a transaction.  Those
\* there are must be APROBADO; none is asked for.
ApproveDriver(w) ==
    /\ Called(w, "approveDriver")
    /\ driver.estado = "PENDIENTE"
    /\ \A t \in Tipos : document[t] \in {"none", "APROBADO"}
    /\ Become(w, [Call("approveDriver", "cascade") EXCEPT
            !.copy = [driver EXCEPT !.estado = "APROBADO"], !.docs = document])
    /\ UNCHANGED <<Rows, now, faults, reviewed>>

\* save(driver) cascades to the documents it was read with: their copies are
\* compared too, and a document that is not among them loses its driver, which
\* the column does not allow.
CascadeApproval(w) ==
    LET docs == proc[w].docs
    IN  /\ proc[w].at = "cascade"
        /\ IF \E t \in Tipos : docs[t] = "none" /\ document[t] # "none"
           THEN Done(w)
           ELSE Become(w, [proc[w] EXCEPT !.at = "commit",
                    !.cols = Differing(proc[w].copy, driver) \cup Differing(docs, document)])
        /\ UNCHANGED <<Rows, Past>>

CommitApproval(w) ==
    /\ proc[w].at = "commit"
    /\ driver' = Updated(proc[w].copy, driver, proc[w].cols)
    /\ document' = Updated(proc[w].docs, document, proc[w].cols)
    /\ rol' = "CONDUCTOR"
    /\ Become(w, Call("approveDriver", "alias"))
    /\ UNCHANGED <<alias, file, vehicle, Past>>

\* Mutant: the end of the wait is kept, as if it were its beginning.
RejectUntil(w) ==
    /\ Called(w, "rejectDriver")
    /\ driver.estado = "PENDIENTE"
    /\ Become(w, [Call("rejectDriver", "save") EXCEPT
            !.copy = [estado |-> "RECHAZADO", fechaRechazo |-> now + Cooldown]])
    /\ UNCHANGED <<Rows, now, faults, reviewed>>

RejectDriver(w) ==
    /\ Called(w, "rejectDriver")
    /\ driver.estado = "PENDIENTE"
    /\ Become(w, [Call("rejectDriver", "save") EXCEPT
            !.copy = [estado |-> "RECHAZADO", fechaRechazo |-> now]])
    /\ UNCHANGED <<Rows, now, faults, reviewed>>

\* Mutant: the alias is forgotten.
SuspendQuietly(w) ==
    /\ Called(w, "suspendDriver")
    /\ Active(driver.estado)
    /\ Become(w, [Call("rejectDriver", "save") EXCEPT !.copy = [driver EXCEPT !.estado = "SUSPENDIDO"]])
    /\ UNCHANGED <<Rows, now, faults, reviewed>>

SuspendDriver(w) ==
    /\ Called(w, "suspendDriver")
    /\ Active(driver.estado)
    /\ Become(w, [Call("suspendDriver", "save") EXCEPT !.copy = [driver EXCEPT !.estado = "SUSPENDIDO"]])
    /\ UNCHANGED <<Rows, now, faults, reviewed>>

-----------------------------------------------------------------------------

\* The handler throws, or the process stops; a transaction is rolled back.
Fail(w) ==
    /\ faults < MaxFaults
    /\ proc[w].at # "idle"
    /\ faults' = faults + 1
    /\ Done(w)
    /\ UNCHANGED <<Rows, now, reviewed, overlapped>>

NextDay ==
    /\ now < MaxTime
    /\ now' = now + 1
    /\ UNCHANGED <<Rows, proc, faults, reviewed, overlapped>>

Calls(w) ==
    \/ ApplyAsDriver(w) \/ ApproveDriver(w) \/ RejectDriver(w) \/ SuspendDriver(w)
    \/ \E t \in Tipos : UploadDocument(w, t) \/ ApproveDocument(w, t) \/ RejectDocument(w, t)
    \/ \E v \in Vehicles :
        \/ CreateVehicle(w, v) \/ DisableVehicle(w, v) \/ ReactivateVehicle(w, v)
        \/ \E changed \in BOOLEAN : UpdateVehicle(w, v, changed)

Continue(w) ==
    \/ InsertDriver(w) \/ SaveDriver(w) \/ FlushDriver(w) \/ UpdateAlias(w)
    \/ StoreFile(w) \/ FindDocument(w) \/ InsertDocument(w) \/ SaveDocument(w) \/ FlushDocument(w)
    \/ InsertVehicle(w) \/ SaveVehicle(w) \/ FlushVehicle(w)
    \/ CascadeApproval(w) \/ CommitApproval(w)

Next ==
    \/ \E w \in Workers : Calls(w) \/ Continue(w) \/ Fail(w)
    \/ NextDay

Spec == Init /\ [][Next]_vars

-----------------------------------------------------------------------------
(* Properties. *)

\* Types: the columns, the stored files and the copies keep their domains.
TypeOK ==
    /\ now \in 0..MaxTime
    /\ driver \in Driver
    /\ rol \in {"PASAJERO", "CONDUCTOR"} /\ alias \in {"Pasajero", "Conductor"}
    /\ document \in [Tipos -> EstadoDocumento \cup {"none"}]
    /\ file \in [Tipos -> 0..MaxFiles] /\ reviewed \in [Tipos -> 0..MaxFiles]
    /\ vehicle \in [Vehicles -> Vehicle \cup {Unknown}]
    /\ proc \in [Workers -> Proc]
    /\ faults \in 0..MaxFaults
    /\ overlapped \subseteq DOMAIN Kinds

\* What may become of an application as long as no two decide on it at once,
\* whoever else is at work and wherever a handler is lost: it is approved,
\* rejected or suspended while PENDIENTE; an approved driver goes back to
\* PENDIENTE when a vehicle changes, a rejected one not before the cooldown is
\* over; a suspension is for good.
ReviewLifecycle ==
    [][LET from == driver.estado
           to == driver'.estado
       IN  from # to /\ "decisions" \notin overlapped =>
            \/ from = "none" /\ to = "PENDIENTE"
            \/ from = "PENDIENTE" /\ to \in {"APROBADO", "RECHAZADO", "SUSPENDIDO"}
            \/ from = "APROBADO" /\ to \in {"PENDIENTE", "SUSPENDIDO"}
            \/ from = "RECHAZADO" /\ to = "PENDIENTE" /\ now - driver.fechaRechazo >= Cooldown]_vars

\* What is in the storage for an approved driver is what an administrator has
\* approved, down to the last upload, when documents are handled one at a time
\* and no upload is lost.
ApprovalFollowsReview ==
    driver.estado = "APROBADO" /\ "documents" \notin overlapped /\ faults = 0 =>
        \A t \in Tipos : document[t] # "none" => reviewed[t] = file[t]

\* The alias that passengers see says Conductor of approved drivers, and of
\* nobody else, once the handlers that decide are through.
AliasFollowsState ==
    /\ "decisions" \notin overlapped /\ faults = 0
    /\ \A w \in Workers : proc[w].op \notin Decisions
    => (alias = "Conductor" <=> driver.estado = "APROBADO")
=============================================================================
