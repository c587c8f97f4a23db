----------------------------- MODULE DriversProofs -----------------------------
(* What is proved of Drivers, for any number of documents, vehicles, slots   *)
(* and days, whatever runs beside what and wherever a handler is lost.       *)
EXTENDS Drivers, FiniteSetTheorems, TLAPS

-----------------------------------------------------------------------------
(* What a handler holds, and at which stage. *)

Shape(p) ==
    /\ p.at = "idle" <=> p.op = "none"
    /\ p.at = "insert" => p.op = "applyAsDriver"
    /\ p.at \in {"save", "flush"} =>
          /\ p.op \in {"applyAsDriver", "updateVehicle", "rejectDriver", "suspendDriver"}
          /\ p.copy.estado # "APROBADO"
    /\ p.at \in {"cascade", "commit"} => p.op = "approveDriver"
    /\ p.at = "alias" => p.op \in {"updateVehicle", "suspendDriver", "approveDriver"}
    /\ p.at \in {"store", "find", "insertDocument"} => p.op = "uploadDocument"
    /\ p.at \in {"saveDocument", "flushDocument"} =>
          p.op \in {"uploadDocument", "approveDocument", "rejectDocument"}
    /\ p.at \in {"insertVehicle", "saveVehicle", "flushVehicle"} =>
          p.op \in {"createVehicle", "updateVehicle", "disableVehicle", "reactivateVehicle"}
    /\ p.at \in {"saveVehicle", "flushVehicle"} => p.copy.estado # "APROBADO"

Known(p) == p.at \in {"saveVehicle", "flushVehicle"} => vehicle[p.v] # Unknown

(* Two handlers of a kind under way at a time are on record. *)
Alone(k) ==
    k \notin overlapped =>
        \A u, v \in Workers : proc[u].op \in Kinds[k] /\ proc[v].op \in Kinds[k] => u = v

(* The file of a type that is about to be stored has its place. *)
Storing(t) == {u \in Workers : proc[u].at = "store" /\ proc[u].t = t}

HandlersInv ==
    /\ \A w \in Workers : Shape(proc[w]) /\ Known(proc[w])
    /\ Alone("decisions") /\ Alone("documents")
    /\ \A t \in Tipos : file[t] + Cardinality(Storing(t)) <= MaxFiles

(* What a handler that decides alone has read of the application still holds *)
(* when it writes.                                                           *)
Decides(p) ==
    LET saving == p.at \in {"save", "flush"}
    IN  /\ p.at = "insert" => driver.estado \in {"none", "SUSPENDIDO"}
        /\ p.op = "applyAsDriver" /\ saving =>
              /\ driver.estado = "RECHAZADO" /\ now - driver.fechaRechazo >= Cooldown
              /\ p.copy.estado = "PENDIENTE"
        /\ p.op = "updateVehicle" /\ p.at # "alias" =>
              driver.estado = "APROBADO" /\ p.copy.estado = "PENDIENTE"
        /\ p.op = "rejectDriver" /\ saving =>
              driver.estado = "PENDIENTE" /\ p.copy.estado = "RECHAZADO"
        /\ p.op = "suspendDriver" /\ saving =>
              Active(driver.estado) /\ p.copy.estado = "SUSPENDIDO"
        /\ p.at \in {"cascade", "commit"} =>
              driver.estado = "PENDIENTE" /\ p.copy.estado = "APROBADO"
        /\ p.at \in {"flush", "commit"} /\ p.copy.estado # driver.estado => "estado" \in p.cols
        /\ p.at = "alias" => (p.op = "approveDriver" <=> driver.estado = "APROBADO")

DecisionsInv ==
    "decisions" \notin overlapped =>
        /\ \A w \in Workers : Decides(proc[w])
        /\ faults = 0 /\ (\A w \in Workers : proc[w].at # "alias") =>
              (alias = "Conductor" <=> driver.estado = "APROBADO")

(* What a handler that is alone with the documents has read of them, and of  *)
(* their files, still holds; no file is replaced under an approved driver.   *)
Files(p) ==
    /\ p.op = "uploadDocument" => driver.estado # "APROBADO"
    /\ p.at = "insertDocument" => document[p.t] = "none"
    /\ p.at \in {"saveDocument", "flushDocument"} =>
          /\ p.op = "uploadDocument" => p.docs[p.t] = "PENDIENTE"
          /\ p.op = "rejectDocument" => p.docs[p.t] = "RECHAZADO"
          /\ p.op = "approveDocument" => p.seen = file[p.t]
          /\ document[p.t] # "none"
    /\ p.at = "flushDocument" /\ p.docs[p.t] # document[p.t] => "estado" \in p.cols
    /\ p.at \in {"cascade", "commit"} =>
          p.docs = document /\ \A t \in Tipos : document[t] \in {"none", "APROBADO"}

Uploaded(w, t) ==
    proc[w].op = "uploadDocument" /\ proc[w].at # "store" /\ proc[w].t = t

DocumentsInv ==
    "documents" \notin overlapped =>
        /\ \A w \in Workers : Files(proc[w])
        /\ faults = 0 =>
              \A t \in Tipos :
                  \/ document[t] = "none" \/ (document[t] # "APROBADO" /\ driver.estado # "APROBADO")
                  \/ \E w \in Workers : Uploaded(w, t)
                  \/ reviewed[t] = file[t]

-----------------------------------------------------------------------------
(* Operators. *)

LEMMA DefaultIds == AnyTipo \in Tipos /\ AnyVehicle \in Vehicles
  BY DriverAssumption DEF AnyTipo, AnyVehicle

LEMMA KindsAre ==
    /\ DOMAIN Kinds = {"decisions", "documents"}
    /\ Kinds["decisions"] = Decisions
    /\ Kinds["documents"] =
          {"uploadDocument", "approveDocument", "rejectDocument", "approveDriver"}
  BY DEF Kinds

LEMMA UpdatedDriver ==
    ASSUME NEW copy \in Driver, NEW row \in Driver, NEW cols
    PROVE  /\ Updated(copy, row, cols) \in Driver
           /\ Updated(copy, row, cols).estado =
                  IF "estado" \in cols THEN copy.estado ELSE row.estado
           /\ Updated(copy, row, cols).fechaRechazo =
                  IF "fechaRechazo" \in cols THEN copy.fechaRechazo ELSE row.fechaRechazo
<1>1. DOMAIN row = {"estado", "fechaRechazo"}
  BY DEF Driver
<1>2. Updated(copy, row, cols) = [c \in {"estado", "fechaRechazo"} |->
            IF c \in cols THEN copy[c] ELSE row[c]]
  BY <1>1 DEF Updated
<1>3. /\ copy["estado"] = copy.estado /\ row["estado"] = row.estado
      /\ copy["fechaRechazo"] = copy.fechaRechazo /\ row["fechaRechazo"] = row.fechaRechazo
  OBVIOUS
<1>. QED  BY <1>2, <1>3 DEF Driver

LEMMA DifferingDriver ==
    ASSUME NEW copy \in Driver, NEW row \in Driver
    PROVE  /\ Differing(copy, row) \subseteq DOMAIN NoDriver
           /\ copy.estado # row.estado => "estado" \in Differing(copy, row)
<1>1. DOMAIN row = {"estado", "fechaRechazo"} /\ DOMAIN NoDriver = {"estado", "fechaRechazo"}
  BY DEF Driver, NoDriver
<1>2. copy["estado"] = copy.estado /\ row["estado"] = row.estado
  OBVIOUS
<1>. QED  BY <1>1, <1>2 DEF Differing

Documents == [Tipos -> EstadoDocumento \cup {"none"}]

LEMMA UpdatedDocuments ==
    ASSUME NEW docs \in Documents, NEW rows \in Documents, NEW cols
    PROVE  /\ Updated(docs, rows, cols) \in Documents
           /\ docs = rows => Updated(docs, rows, cols) = rows
           /\ Differing(docs, rows) \subseteq Tipos
<1>1. DOMAIN rows = Tipos
  BY DEF Documents
<1>2. Updated(docs, rows, cols) \in Documents
  BY <1>1 DEF Updated, Documents
<1>3. docs = rows => Updated(docs, rows, cols) = rows
  BY <1>1 DEF Updated, Documents
<1>. QED  BY <1>1, <1>2, <1>3 DEF Differing

LEMMA IdleType == Idle \in Proc /\ Idle.at = "idle" /\ Idle.op = "none" /\ Idle.copy.estado = "none"
<1>1. [t \in Tipos |-> "none"] \in Documents
  BY DEF Documents
<1>2. NoDriver \in Driver /\ NoDriver.estado = "none"
  BY DriverAssumption DEF NoDriver, Driver, Never
<1>. QED  BY <1>1, <1>2, DefaultIds, DriverAssumption DEF Idle, Proc, Documents, Stages

LEMMA CallType ==
    ASSUME NEW op \in Ops, NEW at \in Stages
    PROVE  /\ Call(op, at) \in Proc
           /\ Call(op, at).op = op /\ Call(op, at).at = at
           /\ Call(op, at).copy = NoDriver
<1>1. Idle.copy = NoDriver
  BY DEF Idle
<1>. QED  BY <1>1, IdleType DEF Call, Proc

-----------------------------------------------------------------------------
(* A call: one slot is filled with what was read, and nothing else changes. *)

Begins(w, record) ==
    /\ record \in Proc /\ record.op # "none"
    /\ Shape(record) /\ Known(record) /\ Decides(record) /\ Files(record)
    /\ record.at # "alias" /\ (record.op = "uploadDocument" => record.at = "store")
    /\ record.at = "store" => FilesLeft(record.t)
    /\ Become(w, record) /\ Called(w, record.op)
    /\ UNCHANGED <<Rows, now, faults, reviewed>>

LEMMA DecisionsBegin ==
    ASSUME TypeOK, NEW w \in Workers,
           ApplyAsDriver(w) \/ ApproveDriver(w) \/ RejectDriver(w) \/ SuspendDriver(w)
    PROVE  \E record : Begins(w, record)
<1> driver \in Driver /\ now \in 0..MaxTime /\ document \in Documents
  BY DEF TypeOK, Documents
<1> MaxTime \in Nat
  BY DriverAssumption
<1>1. CASE ApplyAsDriver(w) /\ driver.estado \in {"none", "SUSPENDIDO"}
              /\ Become(w, Call("applyAsDriver", "insert"))
  <2> DEFINE record == Call("applyAsDriver", "insert")
  <2>1. record \in Proc /\ record.op = "applyAsDriver" /\ record.at = "insert"
    BY CallType DEF Ops, Decisions, Stages
  <2>2. Become(w, record) /\ Called(w, "applyAsDriver") /\ UNCHANGED <<Rows, now, faults, reviewed>>
    BY <1>1 DEF ApplyAsDriver, CalledBySelf
  <2> HIDE DEF record
  <2>3. Begins(w, record)
    BY <1>1, <2>1, <2>2 DEF Begins, Known, Shape, Decides, Files
  <2>. QED  BY <2>3
<1>2. CASE ApplyAsDriver(w) /\ driver.estado = "RECHAZADO"
  <2> DEFINE base == Call("applyAsDriver", "save")
  <2>0. base \in Proc /\ base.op = "applyAsDriver" /\ base.at = "save"
    BY CallType DEF Ops, Decisions, Stages
  <2> HIDE DEF base
  <2> DEFINE record == [base EXCEPT
                            !.copy = [estado |-> "PENDIENTE", fechaRechazo |-> Never]]
  <2>1. /\ record \in Proc /\ record.op = "applyAsDriver" /\ record.at = "save"
        /\ record.copy.estado = "PENDIENTE"
    BY <2>0 DEF Proc, Driver, Never, EstadoConductor
  <2>2. /\ Become(w, record) /\ Called(w, "applyAsDriver")
        /\ UNCHANGED <<Rows, now, faults, reviewed>>
        /\ now - driver.fechaRechazo >= Cooldown
    BY <1>2 DEF ApplyAsDriver, CalledBySelf, base
  <2> HIDE DEF record
  <2>3. Begins(w, record)
    BY <1>2, <2>1, <2>2 DEF Begins, Known, Shape, Decides, Files
  <2>. QED  BY <2>3
<1>3. CASE ApproveDriver(w)
  <2> DEFINE base == Call("approveDriver", "cascade")
  <2>0. base \in Proc /\ base.op = "approveDriver" /\ base.at = "cascade"
    BY CallType DEF Ops, Decisions, Stages
  <2> HIDE DEF base
  <2> DEFINE copy == [driver EXCEPT !.estado = "APROBADO"]
             record == [base EXCEPT !.copy = copy, !.docs = document]
  <2>1. copy \in Driver /\ copy.estado = "APROBADO"
    BY DEF Driver, EstadoConductor
  <2> HIDE DEF copy
  <2>2. /\ record \in Proc /\ record.op = "approveDriver" /\ record.at = "cascade"
        /\ record.copy = copy /\ record.docs = document
    BY <2>0, <2>1 DEF Proc, Documents
  <2>3. /\ Become(w, record) /\ Called(w, "approveDriver")
        /\ UNCHANGED <<Rows, now, faults, reviewed>>
        /\ driver.estado = "PENDIENTE" /\ \A t \in Tipos : document[t] \in {"none", "APROBADO"}
    BY <1>3 DEF ApproveDriver, copy, base
  <2> HIDE DEF record
  <2>4. Begins(w, record)
    BY <2>1, <2>2, <2>3 DEF Begins, Known, Shape, Decides, Files
  <2>. QED  BY <2>4
<1>4. CASE RejectDriver(w)
  <2> DEFINE base == Call("rejectDriver", "save")
  <2>0. base \in Proc /\ base.op = "rejectDriver" /\ base.at = "save"
    BY CallType DEF Ops, Decisions, Stages
  <2> HIDE DEF base
  <2> DEFINE record == [base EXCEPT
                            !.copy = [estado |-> "RECHAZADO", fechaRechazo |-> now]]
  <2>1. /\ record \in Proc /\ record.op = "rejectDriver" /\ record.at = "save"
        /\ record.copy.estado = "RECHAZADO"
    BY <2>0 DEF Proc, Driver, EstadoConductor
  <2>2. /\ Become(w, record) /\ Called(w, "rejectDriver")
        /\ UNCHANGED <<Rows, now, faults, reviewed>> /\ driver.estado = "PENDIENTE"
    BY <1>4 DEF RejectDriver, base
  <2> HIDE DEF record
  <2>3. Begins(w, record)
    BY <2>1, <2>2 DEF Begins, Known, Shape, Decides, Files
  <2>. QED  BY <2>3
<1>5. CASE SuspendDriver(w)
  <2> DEFINE base == Call("suspendDriver", "save")
  <2>0. base \in Proc /\ base.op = "suspendDriver" /\ base.at = "save"
    BY CallType DEF Ops, Decisions, Stages
  <2> HIDE DEF base
  <2> DEFINE copy == [driver EXCEPT !.estado = "SUSPENDIDO"]
             record == [base EXCEPT !.copy = copy]
  <2>1. copy \in Driver /\ copy.estado = "SUSPENDIDO"
    BY DEF Driver, EstadoConductor
  <2> HIDE DEF copy
  <2>2. /\ record \in Proc /\ record.op = "suspendDriver" /\ record.at = "save"
        /\ record.copy = copy
    BY <2>0, <2>1 DEF Proc
  <2>3. /\ Become(w, record) /\ Called(w, "suspendDriver")
        /\ UNCHANGED <<Rows, now, faults, reviewed>> /\ Active(driver.estado)
    BY <1>5 DEF SuspendDriver, copy, base
  <2> HIDE DEF record
  <2>4. Begins(w, record)
    BY <2>1, <2>2, <2>3 DEF Begins, Known, Shape, Decides, Files
  <2>. QED  BY <2>4
<1>6. ApplyAsDriver(w) =>
        \/ driver.estado \in {"none", "SUSPENDIDO"} /\ Become(w, Call("applyAsDriver", "insert"))
        \/ driver.estado = "RECHAZADO"
  BY DEF ApplyAsDriver
<1>. QED  BY <1>1, <1>2, <1>3, <1>4, <1>5, <1>6

LEMMA DocumentsBegin ==
    ASSUME TypeOK, NEW w \in Workers, NEW t \in Tipos,
           UploadDocument(w, t) \/ ApproveDocument(w, t) \/ RejectDocument(w, t)
    PROVE  \E record : Begins(w, record)
<1> file \in [Tipos -> 0..MaxFiles] /\ document \in Documents
  BY DEF TypeOK, Documents
<1>1. CASE UploadDocument(w, t)
  <2> DEFINE base == Call("uploadDocument", "store")
  <2>1. base \in Proc /\ base.op = "uploadDocument" /\ base.at = "store"
    BY CallType DEF Ops, Decisions, Stages
  <2> HIDE DEF base
  <2> DEFINE record == [base EXCEPT !.t = t]
  <2>2. /\ record \in Proc /\ record.op = "uploadDocument" /\ record.at = "store"
        /\ record.t = t
    BY <2>1 DEF Proc
  <2>3. /\ Become(w, record) /\ Called(w, "uploadDocument") /\ FilesLeft(t)
        /\ UNCHANGED <<Rows, now, faults, reviewed>> /\ driver.estado = "PENDIENTE"
    BY <1>1 DEF UploadDocument, CalledBySelf, base
  <2> HIDE DEF record
  <2>4. Begins(w, record)
    BY <2>2, <2>3 DEF Begins, Known, Shape, Decides, Files
  <2>. QED  BY <2>4
<1>2. ASSUME NEW op \in {"approveDocument", "rejectDocument"},
             NEW estado \in EstadoDocumento, DecideDocument(w, t, op, estado),
             op = "rejectDocument" => estado = "RECHAZADO"
      PROVE  \E record : Begins(w, record)
  <2> DEFINE base == Call(op, "saveDocument")
  <2>1. base \in Proc /\ base.op = op /\ base.at = "saveDocument"
    BY CallType DEF Ops, Decisions, Stages
  <2> HIDE DEF base
  <2> DEFINE record == [base EXCEPT !.t = t, !.docs[t] = estado, !.seen = file[t]]
  <2>2. /\ record \in Proc /\ record.op = op /\ record.at = "saveDocument"
        /\ record.t = t /\ record.docs[t] = estado /\ record.seen = file[t]
    BY <2>1 DEF Proc
  <2>3. /\ Become(w, record) /\ Called(w, op) /\ document[t] # "none"
        /\ UNCHANGED <<Rows, now, faults, reviewed>>
    BY <1>2 DEF DecideDocument, base
  <2> HIDE DEF record
  <2>4. Begins(w, record)
    BY <1>2, <2>2, <2>3 DEF Begins, Known, Shape, Decides, Files
  <2>. QED  BY <2>4
<1>3. {"APROBADO", "RECHAZADO"} \subseteq EstadoDocumento
  BY DEF EstadoDocumento
<1>. QED  BY <1>1, <1>2, <1>3 DEF ApproveDocument, RejectDocument

LEMMA VehiclesBegin ==
    ASSUME TypeOK, NEW w \in Workers, NEW v \in Vehicles,
           \/ CreateVehicle(w, v) \/ DisableVehicle(w, v) \/ ReactivateVehicle(w, v)
           \/ \E changed \in BOOLEAN : UpdateVehicle(w, v, changed)
    PROVE  \E record : Begins(w, record)
<1> driver \in Driver /\ vehicle[v] \in Vehicle \cup {Unknown}
  BY DEF TypeOK
<1>1. CASE CreateVehicle(w, v)
  <2> DEFINE base == Call("createVehicle", "insertVehicle")
  <2>1. base \in Proc /\ base.op = "createVehicle" /\ base.at = "insertVehicle"
    BY CallType DEF Ops, Decisions, Stages
  <2> HIDE DEF base
  <2> DEFINE record == [base EXCEPT !.v = v]
  <2>2. record \in Proc /\ record.op = "createVehicle" /\ record.at = "insertVehicle"
    BY <2>1 DEF Proc
  <2>3. /\ Become(w, record) /\ Called(w, "createVehicle")
        /\ UNCHANGED <<Rows, now, faults, reviewed>>
    BY <1>1 DEF CreateVehicle, CalledBySelf, base
  <2> HIDE DEF record
  <2>4. Begins(w, record)
    BY <2>2, <2>3 DEF Begins, Known, Shape, Decides, Files
  <2>. QED  BY <2>4
<1>2. ASSUME NEW changed \in BOOLEAN, UpdateVehicle(w, v, changed)
      PROVE  \E record : Begins(w, record)
  <2> DEFINE base == Call("updateVehicle", "saveVehicle")
  <2>1. base \in Proc /\ base.op = "updateVehicle" /\ base.at = "saveVehicle"
    BY CallType DEF Ops, Decisions, Stages
  <2> HIDE DEF base
  <2> DEFINE copy == [driver EXCEPT !.estado = "PENDIENTE"]
             record == [base EXCEPT !.v = v, !.car = vehicle[v], !.changed = changed,
                                    !.copy = copy]
  <2>2. copy \in Driver /\ copy.estado = "PENDIENTE"
    BY DEF Driver, EstadoConductor
  <2> HIDE DEF copy
  <2>3. /\ record \in Proc /\ record.op = "updateVehicle" /\ record.at = "saveVehicle"
        /\ record.copy = copy /\ record.v = v
    BY <2>1, <2>2 DEF Proc
  <2>4. /\ Become(w, record) /\ Called(w, "updateVehicle")
        /\ UNCHANGED <<Rows, now, faults, reviewed>> /\ driver.estado = "APROBADO"
        /\ vehicle[v] # Unknown
    BY <1>2 DEF UpdateVehicle, CalledBySelf, copy, base
  <2> HIDE DEF record
  <2>5. Begins(w, record)
    BY <2>2, <2>3, <2>4 DEF Begins, Known, Shape, Decides, Files
  <2>. QED  BY <2>5
<1>3. ASSUME NEW op \in {"disableVehicle", "reactivateVehicle"}, NEW isActivo \in BOOLEAN,
             SetActive(w, v, op, isActivo)
      PROVE  \E record : Begins(w, record)
  <2> DEFINE base == Call(op, "saveVehicle")
  <2>1. /\ base \in Proc /\ base.op = op /\ base.at = "saveVehicle"
        /\ base.copy.estado = "none"
    BY CallType DEF Ops, Decisions, Stages, NoDriver
  <2> HIDE DEF base
  <2> DEFINE car == [vehicle[v] EXCEPT !.isActivo = isActivo]
             record == [base EXCEPT !.v = v, !.car = car]
  <2>2. vehicle[v] # Unknown => car \in Vehicle
    BY DEF Vehicle
  <2>3. /\ Become(w, record) /\ Called(w, op) /\ vehicle[v] # Unknown
        /\ UNCHANGED <<Rows, now, faults, reviewed>>
    BY <1>3 DEF SetActive, CalledBySelf, base
  <2> HIDE DEF car
  <2>4. /\ record \in Proc /\ record.op = op /\ record.at = "saveVehicle"
        /\ record.copy.estado = "none" /\ record.v = v
    BY <2>1, <2>2, <2>3 DEF Proc
  <2> HIDE DEF record
  <2>5. Begins(w, record)
    BY <2>3, <2>4 DEF Begins, Known, Shape, Decides, Files
  <2>. QED  BY <2>5
<1>. QED  BY <1>1, <1>2, <1>3 DEF DisableVehicle, ReactivateVehicle

LEMMA CallsBegin ==
    ASSUME TypeOK, NEW w \in Workers, Calls(w)
    PROVE  \E record : Begins(w, record)
  BY DecisionsBegin, DocumentsBegin, VehiclesBegin DEF Calls

-----------------------------------------------------------------------------
(* A statement of a handler: the slot moves on, and what becomes of the rows *)
(* is a matter of the handlers of its own kind.                              *)

DocumentOps == {"uploadDocument", "approveDocument", "rejectDocument", "approveDriver"}

RowsType ==
    /\ driver \in Driver
    /\ rol \in {"PASAJERO", "CONDUCTOR"} /\ alias \in {"Pasajero", "Conductor"}
    /\ document \in Documents
    /\ reviewed \in [Tipos -> 0..MaxFiles]
    /\ vehicle \in [Vehicles -> Vehicle \cup {Unknown}]

Approved == driver.estado = "APROBADO"

DecisionMoves(w) ==
    "decisions" \notin overlapped =>
        /\ Decides(proc[w])'
        /\ \/ proc'[w].at = "alias"
           \/ alias' = "Conductor" <=> Approved'
           \/ proc[w].at # "alias" /\ alias' = alias /\ (Approved' <=> Approved)

Reviewed(t) ==
    \/ document[t] = "none" \/ (document[t] # "APROBADO" /\ ~Approved)
    \/ reviewed[t] = file[t]

DocumentsMove(w) ==
    "documents" \notin overlapped =>
        /\ Files(proc[w])'
        /\ faults = 0 =>
              \A t \in Tipos :
                  \/ Reviewed(t)' \/ Uploaded(w, t)'
                  \/ /\ ~Uploaded(w, t) /\ (Approved' => Approved)
                     /\ document'[t] = document[t] /\ file'[t] = file[t]
                     /\ reviewed'[t] = reviewed[t]

Moves(w) ==
    /\ proc' \in [Workers -> Proc] /\ \A v \in Workers : v # w => proc'[v] = proc[v]
    /\ Shape(proc[w])' /\ Known(proc[w])' /\ proc'[w].at # "store" /\ proc'[w].op \in {"none", proc[w].op}
    /\ proc[w].at # "idle" /\ UNCHANGED <<now, faults, overlapped>>
    /\ RowsType' /\ \A v \in Vehicles : vehicle[v] # Unknown => vehicle'[v] # Unknown
    /\ file' = IF proc[w].at = "store" THEN [file EXCEPT ![proc[w].t] = @ + 1] ELSE file
    /\ driver' = driver \/ proc[w].op \in Decisions
    /\ (document' = document /\ file' = file /\ reviewed' = reviewed) \/ proc[w].op \in DocumentOps
    /\ (Approved' => Approved) \/ proc[w].op \in DocumentOps
    /\ DecisionMoves(w) /\ DocumentsMove(w)

Inv == TypeOK /\ HandlersInv /\ DecisionsInv /\ DocumentsInv

LEMMA Becomes ==
    ASSUME TypeOK, NEW w \in Workers, NEW record \in Proc, Become(w, record)
    PROVE  /\ proc' \in [Workers -> Proc] /\ proc'[w] = record
           /\ \A v \in Workers : v # w => proc'[v] = proc[v]
  BY DEF Become, TypeOK

LEMMA DoneMoves ==
    ASSUME TypeOK, NEW w \in Workers, Done(w)
    PROVE  /\ proc' \in [Workers -> Proc] /\ \A v \in Workers : v # w => proc'[v] = proc[v]
           /\ Shape(proc[w])' /\ Decides(proc[w])' /\ Files(proc[w])'
           /\ proc'[w].at = "idle" /\ proc'[w].op = "none" /\ \A t \in Tipos : ~Uploaded(w, t)'
<1>1. proc'[w] = Idle /\ proc' \in [Workers -> Proc] /\ \A v \in Workers : v # w => proc'[v] = proc[v]
  BY Becomes, IdleType DEF Done
<1>. QED  BY <1>1, IdleType DEF Shape, Decides, Files, Uploaded

(* What a handler knows when it goes on. *)
LEMMA InvOf ==
    ASSUME Inv, NEW w \in Workers
    PROVE  /\ TypeOK /\ proc[w] \in Proc /\ Shape(proc[w]) /\ Known(proc[w]) /\ RowsType
           /\ file \in [Tipos -> 0..MaxFiles]
           /\ "decisions" \notin overlapped => Decides(proc[w])
           /\ "documents" \notin overlapped => Files(proc[w])
  BY DEF Inv, TypeOK, HandlersInv, DecisionsInv, DocumentsInv, RowsType, Documents

LEMMA ApplicationMoves ==
    ASSUME Inv, NEW w \in Workers, InsertDriver(w) \/ SaveDriver(w) \/ UpdateAlias(w)
    PROVE  Moves(w)
<1> DEFINE p == proc[w]
<1>i. /\ TypeOK /\ p \in Proc /\ Shape(p) /\ RowsType
      /\ "decisions" \notin overlapped => Decides(p)
      /\ "documents" \notin overlapped => Files(p)
  BY InvOf
<1> HIDE DEF p
<1>1. CASE InsertDriver(w)
  <2>1. /\ p.at = "insert" /\ p.op = "applyAsDriver" /\ Done(w)
        /\ UNCHANGED <<rol, alias, document, file, vehicle, Past>>
    BY <1>1, <1>i DEF InsertDriver, Shape, p
  <2>2. driver' \in Driver /\ (Approved' <=> Approved)
    BY <1>1, <1>i DEF InsertDriver, RowsType, Driver, EstadoConductor, Approved
  <2>. QED  BY <1>i, <2>1, <2>2, DoneMoves
            DEF Moves, Known, RowsType, DecisionMoves, DocumentsMove, Decisions, Past, Uploaded, p
<1>2. CASE SaveDriver(w)
  <2> DEFINE record == [p EXCEPT !.at = "flush", !.cols = Differing(p.copy, driver)]
  <2>1. p.at = "save" /\ Become(w, record) /\ UNCHANGED <<Rows, Past>>
    BY <1>2 DEF SaveDriver, p
  <2>2. p.copy \in Driver /\ driver \in Driver
    BY <1>i DEF Proc, RowsType
  <2>3. /\ record \in Proc /\ record.at = "flush" /\ record.op = p.op
        /\ record.copy = p.copy /\ record.cols = Differing(p.copy, driver)
    BY <1>i, <2>2, DifferingDriver DEF Proc, Stages
  <2>4. p.copy.estado # driver.estado => "estado" \in record.cols
    BY <2>2, <2>3, DifferingDriver
  <2> HIDE DEF record
  <2>5. /\ proc' \in [Workers -> Proc] /\ proc'[w] = record
        /\ \A v \in Workers : v # w => proc'[v] = proc[v]
    BY <1>i, <2>1, <2>3, Becomes
  <2>6. Shape(proc[w])' /\ ~(p.op \in DocumentOps)
    BY <1>i, <2>1, <2>3, <2>5 DEF Shape, DocumentOps
  <2>7. "decisions" \notin overlapped => Decides(proc[w])'
    BY <1>i, <2>1, <2>3, <2>4, <2>5, <2>6 DEF Decides, Rows, Past, Shape
  <2>8. Files(proc[w])'
    BY <2>3, <2>5, <2>6 DEF Files, DocumentOps, Shape
  <2>. QED  BY <1>i, <2>1, <2>3, <2>5, <2>6, <2>7, <2>8
            DEF Moves, Known, RowsType, DecisionMoves, DocumentsMove, Rows, Past, Approved, Uploaded,
                DocumentOps, Shape, p
<1>3. CASE UpdateAlias(w)
  <2>1. /\ p.at = "alias" /\ Done(w) /\ p.op \in Decisions
        /\ alias' = IF p.op = "approveDriver" THEN "Conductor" ELSE "Pasajero"
        /\ UNCHANGED <<driver, rol, document, file, vehicle, Past>>
    BY <1>3, <1>i DEF UpdateAlias, Shape, Decisions, p
  <2>2. "decisions" \notin overlapped => (alias' = "Conductor" <=> Approved')
    BY <1>i, <2>1 DEF Decides, Approved
  <2>. QED  BY <1>i, <2>1, <2>2, DoneMoves
            DEF Moves, Known, RowsType, DecisionMoves, DocumentsMove, Past, Approved, Uploaded, Shape, p
<1>. QED  BY <1>1, <1>2, <1>3

LEMMA FlushMoves ==
    ASSUME Inv, NEW w \in Workers, FlushDriver(w)
    PROVE  Moves(w)
<1> DEFINE p == proc[w]
<1>i. /\ TypeOK /\ p \in Proc /\ Shape(p) /\ RowsType
      /\ "decisions" \notin overlapped => Decides(p)
  BY InvOf
<1> HIDE DEF p
<1>1. /\ p.at = "flush" /\ driver' = Updated(p.copy, driver, p.cols)
      /\ IF p.op \in {"updateVehicle", "suspendDriver"}
         THEN Become(w, Call(p.op, "alias")) ELSE Done(w)
      /\ UNCHANGED <<rol, alias, document, file, vehicle, Past>>
  BY DEF FlushDriver, p
<1>2. /\ p.op \in {"applyAsDriver", "updateVehicle", "rejectDriver", "suspendDriver"}
      /\ p.copy.estado # "APROBADO"
  BY <1>1, <1>i DEF Shape
<1>3. /\ driver' \in Driver
      /\ driver'.estado = IF "estado" \in p.cols THEN p.copy.estado ELSE driver.estado
  <2>1. p.copy \in Driver /\ driver \in Driver
    BY <1>i DEF Proc, RowsType
  <2>. QED  BY <1>1, <2>1, UpdatedDriver
<1>4. RowsType' /\ (Approved' => Approved) /\ p.op \in Decisions
  BY <1>1, <1>2, <1>3, <1>i DEF RowsType, Approved, Past, Decisions
<1>5. "decisions" \notin overlapped => ~Approved' /\ driver'.estado = p.copy.estado
  BY <1>1, <1>2, <1>3, <1>i DEF Decides, Approved
<1>6. CASE p.op \in {"updateVehicle", "suspendDriver"}
  <2> DEFINE record == Call(p.op, "alias")
  <2>1. record \in Proc /\ record.op = p.op /\ record.at = "alias"
    <3>1. p.op \in Ops /\ "alias" \in Stages
      BY <1>6 DEF Ops, Decisions, Stages
    <3>. QED  BY <3>1, CallType
  <2>2. Become(w, record)
    BY <1>1, <1>6
  <2> HIDE DEF record
  <2>3. /\ proc' \in [Workers -> Proc] /\ proc'[w] = record
        /\ \A v \in Workers : v # w => proc'[v] = proc[v]
    BY <1>i, <2>1, <2>2, Becomes
  <2>4. Shape(proc[w])' /\ Files(proc[w])'
    BY <1>6, <2>1, <2>3 DEF Shape, Files
  <2>5. "decisions" \notin overlapped => Decides(proc[w])'
    BY <1>5, <1>6, <2>1, <2>3 DEF Decides, Approved
  <2>. QED  BY <1>1, <1>4, <1>6, <2>1, <2>3, <2>4, <2>5
            DEF Moves, Known, DecisionMoves, DocumentsMove, Past, Uploaded, p
<1>7. CASE p.op \in {"applyAsDriver", "rejectDriver"}
  <2>1. Done(w)
    BY <1>1, <1>7
  <2>2. "decisions" \notin overlapped => ~Approved
    BY <1>1, <1>7, <1>i DEF Decides, Approved
  <2>. QED  BY <1>1, <1>4, <1>5, <1>7, <1>i, <2>1, <2>2, DoneMoves
            DEF Moves, Known, DecisionMoves, DocumentsMove, Past, Uploaded, p
<1>. QED  BY <1>2, <1>6, <1>7

LEMMA ApprovalMoves ==
    ASSUME Inv, NEW w \in Workers, CascadeApproval(w) \/ CommitApproval(w)
    PROVE  Moves(w)
<1> DEFINE p == proc[w]
<1>i. /\ TypeOK /\ p \in Proc /\ Shape(p) /\ RowsType
      /\ "decisions" \notin overlapped => Decides(p)
      /\ "documents" \notin overlapped => Files(p)
  BY InvOf
<1>p. /\ p.copy \in Driver /\ driver \in Driver
      /\ p.docs \in Documents /\ document \in Documents
  BY <1>i DEF Proc, RowsType, Documents
<1> HIDE DEF p
<1>o. p.op = "approveDriver" /\ p.op \in DocumentOps /\ p.op \in Decisions
  BY <1>i DEF CascadeApproval, CommitApproval, Shape, DocumentOps, Decisions, p
<1>1. CASE CascadeApproval(w) /\ Done(w)
  <2>1. p.at = "cascade" /\ Done(w) /\ UNCHANGED <<Rows, Past>>
    BY <1>1 DEF CascadeApproval, p
  <2>2. RowsType' /\ (Approved' <=> Approved)
    BY <1>i, <2>1 DEF RowsType, Rows, Past, Approved
  <2>. QED  BY <1>i, <1>o, <2>1, <2>2, DoneMoves
            DEF Moves, Known, DecisionMoves, DocumentsMove, Rows, Past, Uploaded, p
<1>2. CASE CascadeApproval(w) /\ ~Done(w)
  <2> DEFINE cols == Differing(p.copy, driver) \cup Differing(p.docs, document)
             record == [p EXCEPT !.at = "commit", !.cols = cols]
  <2>1. p.at = "cascade" /\ Become(w, record) /\ UNCHANGED <<Rows, Past>>
    BY <1>2 DEF CascadeApproval, p
  <2>2. /\ cols \subseteq DOMAIN NoDriver \cup Tipos
        /\ p.copy.estado # driver.estado => "estado" \in cols
    BY <1>p, DifferingDriver, UpdatedDocuments
  <2> HIDE DEF cols
  <2>3. /\ record \in Proc /\ record.at = "commit" /\ record.op = p.op
        /\ record.copy = p.copy /\ record.cols = cols /\ record.docs = p.docs
    BY <1>i, <2>2 DEF Proc, Stages
  <2> HIDE DEF record
  <2>4. /\ proc' \in [Workers -> Proc] /\ proc'[w] = record
        /\ \A v \in Workers : v # w => proc'[v] = proc[v]
    BY <1>i, <2>1, <2>3, Becomes
  <2>5. Shape(proc[w])'
    BY <1>o, <2>3, <2>4 DEF Shape
  <2>6. "decisions" \notin overlapped => Decides(proc[w])'
    BY <1>i, <1>o, <2>1, <2>2, <2>3, <2>4 DEF Decides, Rows, Past
  <2>7. "documents" \notin overlapped => Files(proc[w])'
    BY <1>i, <1>o, <2>1, <2>3, <2>4 DEF Files, Rows, Past
  <2>. QED  BY <1>i, <1>o, <2>1, <2>3, <2>4, <2>5, <2>6, <2>7
            DEF Moves, Known, RowsType, DecisionMoves, DocumentsMove, Rows, Past, Approved, Uploaded, p
<1>3. CASE CommitApproval(w)
  <2>1. /\ p.at = "commit" /\ driver' = Updated(p.copy, driver, p.cols)
        /\ document' = Updated(p.docs, document, p.cols) /\ rol' = "CONDUCTOR"
        /\ Become(w, Call("approveDriver", "alias"))
        /\ UNCHANGED <<alias, file, vehicle, Past>>
    BY <1>3 DEF CommitApproval, p
  <2>2. /\ driver' \in Driver
        /\ driver'.estado = IF "estado" \in p.cols THEN p.copy.estado ELSE driver.estado
    BY <1>p, <2>1, UpdatedDriver
  <2>3. document' \in Documents /\ (p.docs = document => document' = document)
    BY <1>p, <2>1, UpdatedDocuments
  <2> DEFINE record == Call("approveDriver", "alias")
  <2>4. record \in Proc /\ record.op = "approveDriver" /\ record.at = "alias"
    BY CallType DEF Ops, Decisions, Stages
  <2>5. Become(w, record)
    BY <2>1
  <2> HIDE DEF record
  <2>6. /\ proc' \in [Workers -> Proc] /\ proc'[w] = record
        /\ \A v \in Workers : v # w => proc'[v] = proc[v]
    BY <1>i, <2>4, <2>5, Becomes
  <2>7. Shape(proc[w])' /\ Files(proc[w])'
    BY <2>4, <2>6 DEF Shape, Files
  <2>8. "decisions" \notin overlapped => Decides(proc[w])'
    <3>1. "decisions" \notin overlapped => driver'.estado = "APROBADO"
      BY <1>i, <2>1, <2>2 DEF Decides
    <3>. QED  BY <2>4, <2>6, <3>1 DEF Decides
  <2>9. ASSUME "documents" \notin overlapped, faults = 0, NEW t \in Tipos
        PROVE  Reviewed(t)'
    <3>1. /\ document' = document /\ document[t] \in {"none", "APROBADO"}
          /\ file' = file /\ reviewed' = reviewed
      BY <1>i, <2>1, <2>3, <2>9 DEF Files, Past
    <3>2. \A v \in Workers : ~Uploaded(v, t)
      <4>1. \A v \in Workers : proc[v].op \in DocumentOps => v = w
        BY <1>o, <2>9, KindsAre DEF Inv, HandlersInv, Alone, DocumentOps, p
      <4>. QED  BY <1>o, <4>1 DEF Uploaded, DocumentOps, p
    <3>. QED  BY <2>9, <3>1, <3>2 DEF Inv, DocumentsInv, Reviewed
  <2>10. RowsType'
    BY <1>i, <2>1, <2>2, <2>3 DEF RowsType, Past
  <2>11. DecisionMoves(w) /\ DocumentsMove(w)
    BY <2>4, <2>6, <2>7, <2>8, <2>9 DEF DecisionMoves, DocumentsMove
  <2>. QED  BY <1>o, <2>1, <2>4, <2>6, <2>7, <2>10, <2>11 DEF Moves, Known, Past, p
<1>. QED  BY <1>1, <1>2, <1>3

LEMMA UploadMoves ==
    ASSUME Inv, NEW w \in Workers, StoreFile(w) \/ FindDocument(w) \/ InsertDocument(w)
    PROVE  Moves(w)
<1> DEFINE p == proc[w]
           t == p.t
<1>i. /\ TypeOK /\ p \in Proc /\ Shape(p) /\ RowsType
      /\ file \in [Tipos -> 0..MaxFiles]
      /\ "documents" \notin overlapped => Files(p)
  BY InvOf
<1>t. t \in Tipos
  BY <1>i DEF Proc
<1>c. p.copy \in Driver
  BY <1>i DEF Proc
<1> HIDE DEF p, t
<1>o. p.op = "uploadDocument" /\ p.op \in DocumentOps /\ ~(p.op \in Decisions)
  BY <1>i DEF StoreFile, FindDocument, InsertDocument, Shape, DocumentOps, Decisions, p
<1>1. CASE StoreFile(w)
  <2> DEFINE record == [p EXCEPT !.at = "find"]
  <2>1. /\ p.at = "store" /\ Become(w, record) /\ file' = [file EXCEPT ![t] = @ + 1]
        /\ UNCHANGED <<driver, rol, alias, document, vehicle, Past>>
    BY <1>1 DEF StoreFile, p, t
  <2>2. /\ record \in Proc /\ record.at = "find" /\ record.op = "uploadDocument"
        /\ record.t = t
    BY <1>i, <1>o DEF Proc, Stages, t
  <2> HIDE DEF record
  <2>3. /\ proc' \in [Workers -> Proc] /\ proc'[w] = record
        /\ \A v \in Workers : v # w => proc'[v] = proc[v]
    BY <1>i, <2>1, <2>2, Becomes
  <2>4. Shape(proc[w])' /\ Decides(proc[w])'
    BY <2>2, <2>3 DEF Shape, Decides
  <2>5. "documents" \notin overlapped => Files(proc[w])'
    BY <1>i, <1>o, <2>1, <2>2, <2>3 DEF Files
  <2>6. \A s \in Tipos : s = t \/ file'[s] = file[s]
    BY <1>i, <2>1
  <2>7. DocumentsMove(w)
    BY <1>o, <2>1, <2>2, <2>3, <2>5, <2>6 DEF DocumentsMove, Uploaded, Approved, Past, p
  <2>. QED  BY <1>i, <1>o, <2>1, <2>2, <2>3, <2>4, <2>7
            DEF Moves, Known, RowsType, DecisionMoves, Past, Approved, p, t
<1>2. CASE FindDocument(w)
  <2> DEFINE at == IF document[t] = "none" THEN "insertDocument" ELSE "saveDocument"
             record == [p EXCEPT !.at = at, !.docs[t] = "PENDIENTE"]
  <2>1. p.at = "find" /\ Become(w, record) /\ UNCHANGED <<Rows, Past>>
    BY <1>2 DEF FindDocument, p, t
  <2>2. /\ at \in {"insertDocument", "saveDocument"} /\ at \in Stages
        /\ at = "insertDocument" <=> document[t] = "none"
    BY DEF Stages
  <2> HIDE DEF at
  <2>3. /\ record \in Proc /\ record.at = at /\ record.op = "uploadDocument"
        /\ record.t = t /\ record.docs[t] = "PENDIENTE"
    BY <1>i, <1>o, <1>t, <2>2 DEF Proc, EstadoDocumento, t
  <2> HIDE DEF record
  <2>4. /\ proc' \in [Workers -> Proc] /\ proc'[w] = record
        /\ \A v \in Workers : v # w => proc'[v] = proc[v]
    BY <1>i, <2>1, <2>3, Becomes
  <2>5. Shape(proc[w])' /\ Decides(proc[w])'
    BY <2>2, <2>3, <2>4 DEF Shape, Decides
  <2>6. "documents" \notin overlapped => Files(proc[w])'
    BY <1>i, <1>o, <2>1, <2>2, <2>3, <2>4 DEF Files, Rows
  <2>7. DocumentsMove(w)
    BY <1>o, <2>1, <2>2, <2>3, <2>4, <2>6 DEF DocumentsMove, Uploaded, Approved, Rows, Past, p, t
  <2>. QED  BY <1>i, <1>o, <2>1, <2>2, <2>3, <2>4, <2>5, <2>7
            DEF Moves, Known, RowsType, DecisionMoves, Rows, Past, Approved, p, t
<1>3. CASE InsertDocument(w)
  <2>1. /\ p.at = "insertDocument" /\ Done(w)
        /\ document' = [document EXCEPT ![t] = IF @ = "none" THEN "PENDIENTE" ELSE @]
        /\ UNCHANGED <<driver, rol, alias, file, vehicle, Past>>
    BY <1>3 DEF InsertDocument, p, t
  <2>2. document' \in Documents
    BY <1>i, <2>1 DEF RowsType, Documents, EstadoDocumento
  <2>3. \A s \in Tipos : s = t \/ document'[s] = document[s]
    BY <1>i, <2>1 DEF RowsType, Documents
  <2>4. "documents" \notin overlapped => document'[t] = "PENDIENTE" /\ ~Approved
    BY <1>i, <1>o, <1>t, <2>1 DEF Files, Approved, RowsType, Documents, t
  <2>5. DocumentsMove(w)
    BY <1>i, <1>o, <2>1, <2>3, <2>4, DoneMoves
       DEF DocumentsMove, Uploaded, Reviewed, Approved, Past, p, t
  <2>. QED  BY <1>i, <1>o, <2>1, <2>2, <2>5, DoneMoves
            DEF Moves, Known, RowsType, DecisionMoves, Past, Approved, p
<1>. QED  BY <1>1, <1>2, <1>3

LEMMA DocumentMoves ==
    ASSUME Inv, NEW w \in Workers, SaveDocument(w) \/ FlushDocument(w)
    PROVE  Moves(w)
<1> DEFINE p == proc[w]
           t == p.t
<1>i. /\ TypeOK /\ p \in Proc /\ Shape(p) /\ RowsType
      /\ file \in [Tipos -> 0..MaxFiles]
      /\ "documents" \notin overlapped => Files(p)
  BY InvOf
<1>t. t \in Tipos /\ p.docs[t] \in EstadoDocumento \cup {"none"} /\ p.seen \in 0..MaxFiles
  BY <1>i DEF Proc
<1> HIDE DEF p, t
<1>o. /\ p.op \in {"uploadDocument", "approveDocument", "rejectDocument"}
      /\ p.op \in DocumentOps /\ ~(p.op \in Decisions)
  BY <1>i DEF SaveDocument, FlushDocument, Shape, DocumentOps, Decisions, p
<1>1. CASE SaveDocument(w)
  <2> DEFINE cols == IF p.docs[t] # document[t] THEN {"estado"} ELSE {}
             record == [p EXCEPT !.at = "flushDocument", !.cols = cols]
  <2>1. p.at = "saveDocument" /\ Become(w, record) /\ UNCHANGED <<Rows, Past>>
    BY <1>1 DEF SaveDocument, p, t
  <2>2. cols \subseteq {"estado"} /\ (p.docs[t] # document[t] => "estado" \in cols)
    OBVIOUS
  <2> HIDE DEF cols
  <2>3. /\ record \in Proc /\ record.at = "flushDocument" /\ record.op = p.op
        /\ record.t = t /\ record.docs = p.docs /\ record.seen = p.seen /\ record.cols = cols
    BY <1>i, <2>2 DEF Proc, Stages, t
  <2> HIDE DEF record
  <2>4. /\ proc' \in [Workers -> Proc] /\ proc'[w] = record
        /\ \A v \in Workers : v # w => proc'[v] = proc[v]
    BY <1>i, <2>1, <2>3, Becomes
  <2>5. Shape(proc[w])' /\ Decides(proc[w])'
    BY <1>o, <2>3, <2>4 DEF Shape, Decides, Decisions
  <2>6. "documents" \notin overlapped => Files(proc[w])'
    BY <1>i, <1>o, <2>1, <2>2, <2>3, <2>4 DEF Files, Rows, t
  <2>7. DocumentsMove(w)
    BY <2>1, <2>3, <2>4, <2>6 DEF DocumentsMove, Uploaded, Approved, Rows, Past, p, t
  <2>. QED  BY <1>i, <1>o, <2>1, <2>3, <2>4, <2>5, <2>7
            DEF Moves, Known, RowsType, DecisionMoves, Rows, Past, Approved, p
<1>2. CASE FlushDocument(w)
  <2>1. /\ p.at = "flushDocument" /\ Done(w)
        /\ document' = [document EXCEPT ![t] = IF "estado" \in p.cols THEN p.docs[t] ELSE @]
        /\ reviewed' = [reviewed EXCEPT ![t] = IF p.op = "approveDocument" THEN p.seen ELSE @]
        /\ UNCHANGED <<driver, rol, alias, file, vehicle, now, faults, overlapped>>
    BY <1>2 DEF FlushDocument, p, t
  <2>2. document' \in Documents /\ reviewed' \in [Tipos -> 0..MaxFiles]
    BY <1>i, <1>t, <2>1 DEF RowsType, Documents
  <2>3. \A s \in Tipos : s = t \/ (document'[s] = document[s] /\ reviewed'[s] = reviewed[s])
    BY <1>i, <2>1 DEF RowsType, Documents
  <2>4. "documents" \notin overlapped =>
            \/ document'[t] = "PENDIENTE" /\ ~Approved
            \/ document'[t] = "RECHAZADO" /\ ~Approved
            \/ reviewed'[t] = file[t]
            \/ /\ Approved /\ p.op = "rejectDocument" /\ document'[t] = "RECHAZADO"
               /\ document[t] # "none" /\ reviewed'[t] = reviewed[t]
    <3>1. /\ document'[t] = IF "estado" \in p.cols THEN p.docs[t] ELSE document[t]
          /\ reviewed'[t] = IF p.op = "approveDocument" THEN p.seen ELSE reviewed[t]
      BY <1>i, <1>t, <2>1 DEF RowsType, Documents
    <3>2. "documents" \notin overlapped =>
            /\ document'[t] = p.docs[t] /\ document[t] # "none"
            /\ p.op = "uploadDocument" => p.docs[t] = "PENDIENTE" /\ ~Approved
            /\ p.op = "rejectDocument" => p.docs[t] = "RECHAZADO"
            /\ p.op = "approveDocument" => p.seen = file[t]
      BY <1>i, <2>1, <3>1 DEF Files, Approved, t
    <3>. QED  BY <1>o, <3>1, <3>2
  <2>5. ASSUME "documents" \notin overlapped, faults = 0, Approved, p.op = "rejectDocument",
               document[t] # "none"
        PROVE  reviewed[t] = file[t]
    <3>1. \A v \in Workers : ~Uploaded(v, t)
      <4>1. \A v \in Workers : proc[v].op \in DocumentOps => v = w
        BY <1>o, <2>5, KindsAre DEF Inv, HandlersInv, Alone, DocumentOps, p
      <4>. QED  BY <2>5, <4>1 DEF Uploaded, DocumentOps, p
    <3>. QED  BY <1>t, <2>5, <3>1 DEF Inv, DocumentsInv, Approved
  <2>6. DocumentsMove(w)
    <3>1. ASSUME "documents" \notin overlapped, faults = 0, NEW s \in Tipos
          PROVE  \/ Reviewed(s)'
                 \/ /\ ~Uploaded(w, s) /\ (Approved' => Approved)
                    /\ document'[s] = document[s] /\ file'[s] = file[s]
                    /\ reviewed'[s] = reviewed[s]
      BY <2>1, <2>3, <2>4, <2>5, <3>1 DEF Reviewed, Approved, Uploaded, p, t
    <3>. QED  BY <1>i, <2>1, <3>1, DoneMoves DEF DocumentsMove
  <2>. QED  BY <1>i, <1>o, <2>1, <2>2, <2>6, DoneMoves
            DEF Moves, Known, RowsType, DecisionMoves, Approved, p
<1>. QED  BY <1>1, <1>2

LEMMA VehicleMoves ==
    ASSUME Inv, NEW w \in Workers, InsertVehicle(w) \/ SaveVehicle(w) \/ FlushVehicle(w)
    PROVE  Moves(w)
<1> DEFINE p == proc[w]
           v == p.v
<1>i. /\ TypeOK /\ p \in Proc /\ Shape(p) /\ Known(p) /\ RowsType
      /\ "decisions" \notin overlapped => Decides(p)
  BY InvOf
<1>t. v \in Vehicles /\ p.copy \in Driver /\ p.car \in Vehicle \cup {Unknown}
  BY <1>i DEF Proc
<1>n. now \in 0..MaxTime /\ MaxTime \in Nat
  BY <1>i, DriverAssumption DEF TypeOK
<1> HIDE DEF p, v
<1>o. /\ p.op \in {"createVehicle", "updateVehicle", "disableVehicle", "reactivateVehicle"}
      /\ p.at \in {"saveVehicle", "flushVehicle"} => p.copy.estado # "APROBADO"
      /\ p.op # "uploadDocument"
  BY <1>i DEF InsertVehicle, SaveVehicle, FlushVehicle, Shape, p
<1>1. CASE InsertVehicle(w)
  <2>1. /\ p.at = "insertVehicle" /\ Done(w)
        /\ vehicle' = [vehicle EXCEPT ![v] =
                IF @ = Unknown THEN [isActivo |-> TRUE, updatedAt |-> now] ELSE @]
        /\ UNCHANGED <<driver, rol, alias, document, file, Past>>
    BY <1>1 DEF InsertVehicle, p, v
  <2>2. /\ vehicle' \in [Vehicles -> Vehicle \cup {Unknown}]
        /\ \A u \in Vehicles : vehicle[u] # Unknown => vehicle'[u] # Unknown
    <3>1. [isActivo |-> TRUE, updatedAt |-> now] \in Vehicle
      BY <1>n DEF Vehicle
    <3>. QED  BY <1>i, <2>1, <3>1 DEF RowsType
  <2>. QED  BY <1>i, <1>o, <2>1, <2>2, DoneMoves
            DEF Moves, Known, RowsType, DecisionMoves, DocumentsMove, Uploaded, Past, Approved, p
<1>2. CASE SaveVehicle(w)
  <2> DEFINE cols == IF p.car.isActivo # vehicle[v].isActivo THEN {"isActivo"} ELSE {}
             record == [p EXCEPT !.at = "flushVehicle", !.cols = cols]
  <2>1. p.at = "saveVehicle" /\ Become(w, record) /\ UNCHANGED <<Rows, Past>>
    BY <1>2 DEF SaveVehicle, p, v
  <2>2. cols \subseteq {"isActivo"}
    OBVIOUS
  <2> HIDE DEF cols
  <2>3. /\ record \in Proc /\ record.at = "flushVehicle" /\ record.op = p.op
        /\ record.copy = p.copy /\ record.v = v
    BY <1>i, <2>2 DEF Proc, Stages, v
  <2> HIDE DEF record
  <2>4. /\ proc' \in [Workers -> Proc] /\ proc'[w] = record
        /\ \A u \in Workers : u # w => proc'[u] = proc[u]
    BY <1>i, <2>1, <2>3, Becomes
  <2>5. Shape(proc[w])' /\ Files(proc[w])'
    BY <1>o, <2>1, <2>3, <2>4 DEF Shape, Files
  <2>6. "decisions" \notin overlapped => Decides(proc[w])'
    BY <1>i, <1>o, <2>1, <2>3, <2>4 DEF Decides, Rows
  <2>. QED  BY <1>i, <1>o, <2>1, <2>3, <2>4, <2>5, <2>6
            DEF Moves, Known, RowsType, DecisionMoves, DocumentsMove, Uploaded, Rows, Past, Approved, p, v
<1>3. CASE FlushVehicle(w)
  <2> DEFINE row == vehicle[v]
             new == [isActivo |-> IF "isActivo" \in p.cols THEN p.car.isActivo ELSE row.isActivo,
                     updatedAt |-> IF p.cols # {} \/ p.changed THEN now ELSE row.updatedAt]
  <2>1. /\ p.at = "flushVehicle" /\ vehicle' = [vehicle EXCEPT ![v] = new]
        /\ IF p.op = "updateVehicle"
           THEN Become(w, [Call("updateVehicle", "save") EXCEPT !.copy = p.copy]) ELSE Done(w)
        /\ UNCHANGED <<driver, rol, alias, document, file, Past>>
    BY <1>3 DEF FlushVehicle, p, v
  <2>2. /\ vehicle' \in [Vehicles -> Vehicle \cup {Unknown}]
        /\ \A u \in Vehicles : vehicle[u] # Unknown => vehicle'[u] # Unknown
    <3>1. row \in Vehicle
      BY <1>i, <1>t, <2>1 DEF RowsType, Known, v
    <3>2. p.car.isActivo \in BOOLEAN
      <4>1. \A car \in Vehicle : car.isActivo \in BOOLEAN
        BY DEF Vehicle
      <4>2. Unknown.isActivo \in BOOLEAN
        BY DEF Unknown
      <4>. QED  BY <1>t, <4>1, <4>2
    <3>3. new \in Vehicle
      BY <1>n, <3>1, <3>2 DEF Vehicle
    <3>4. Unknown \notin Vehicle
      BY <1>n DEF Unknown, Vehicle
    <3> HIDE DEF new
    <3>. QED  BY <1>i, <1>t, <2>1, <3>3, <3>4 DEF RowsType
  <2> HIDE DEF new
  <2>3. CASE p.op = "updateVehicle"
    <3> DEFINE base == Call("updateVehicle", "save")
    <3>1. base \in Proc /\ base.op = "updateVehicle" /\ base.at = "save"
      BY CallType DEF Ops, Decisions, Stages
    <3> DEFINE record == [base EXCEPT !.copy = p.copy]
    <3>2. Become(w, record)
      BY <2>1, <2>3
    <3> HIDE DEF base
    <3>3. /\ record \in Proc /\ record.at = "save" /\ record.op = "updateVehicle"
          /\ record.copy = p.copy
      BY <1>t, <3>1 DEF Proc
    <3> HIDE DEF record
    <3>4. /\ proc' \in [Workers -> Proc] /\ proc'[w] = record
          /\ \A u \in Workers : u # w => proc'[u] = proc[u]
      BY <1>i, <3>2, <3>3, Becomes
    <3>5. Shape(proc[w])' /\ Files(proc[w])'
      BY <1>o, <2>1, <3>3, <3>4 DEF Shape, Files
    <3>6. "decisions" \notin overlapped => Decides(proc[w])'
      BY <1>i, <2>1, <2>3, <3>3, <3>4 DEF Decides
    <3>. QED  BY <1>i, <1>o, <2>1, <2>2, <2>3, <3>3, <3>4, <3>5, <3>6
              DEF Moves, Known, RowsType, DecisionMoves, DocumentsMove, Uploaded, Past, Approved, p
  <2>4. CASE p.op # "updateVehicle"
    <3>1. Done(w)
      BY <2>1, <2>4
    <3>. QED  BY <1>i, <1>o, <2>1, <2>2, <3>1, DoneMoves
              DEF Moves, Known, RowsType, DecisionMoves, DocumentsMove, Uploaded, Past, Approved, p
  <2>. QED  BY <2>3, <2>4
<1>. QED  BY <1>1, <1>2, <1>3

LEMMA ContinueMoves ==
    ASSUME Inv, NEW w \in Workers, Continue(w)
    PROVE  Moves(w)
  BY ApplicationMoves, FlushMoves, ApprovalMoves, UploadMoves, DocumentMoves, VehicleMoves
     DEF Continue

-----------------------------------------------------------------------------
(* The invariant. *)

LEMMA StoringIsFinite ==
    \A t \in Tipos : IsFiniteSet(Storing(t)) /\ Cardinality(Storing(t)) \in Nat
<1>1. \A t \in Tipos : Storing(t) \subseteq Workers
  BY DEF Storing
<1>. QED  BY <1>1, DriverAssumption, FS_Subset, FS_CardinalityType

LEMMA InitInv == Init => Inv
<1> SUFFICES ASSUME Init PROVE Inv
  OBVIOUS
<1> MaxTime \in Nat /\ MaxFiles \in Nat /\ MaxFaults \in Nat
  BY DriverAssumption
<1>1. TypeOK
  <2>1. NoDriver \in Driver
    BY DEF NoDriver, Driver, Never
  <2>. QED  BY <2>1, IdleType DEF Init, TypeOK
<1>2. \A w \in Workers : proc[w] = Idle
  BY DEF Init
<1>3. \A w \in Workers : Shape(proc[w]) /\ Known(proc[w])
  BY <1>2, IdleType DEF Shape, Known
<1>4. Alone("decisions") /\ Alone("documents")
  BY <1>2, IdleType, KindsAre DEF Alone, Decisions
<1>5. \A t \in Tipos : file[t] + Cardinality(Storing(t)) <= MaxFiles
  <2>1. \A t \in Tipos : Storing(t) = {} /\ file[t] = 0
    BY <1>2, IdleType DEF Storing, Init
  <2>. QED  BY <2>1, FS_EmptySet
<1>6. \A w \in Workers : Decides(proc[w]) /\ Files(proc[w])
  BY <1>2, IdleType DEF Decides, Files
<1>7. alias = "Pasajero" /\ driver.estado = "none" /\ \A t \in Tipos : document[t] = "none"
  BY DEF Init, NoDriver
<1>. QED  BY <1>1, <1>3, <1>4, <1>5, <1>6, <1>7 DEF Inv, HandlersInv, DecisionsInv, DocumentsInv

LEMMA CallsKeep ==
    ASSUME Inv, NEW w \in Workers, NEW record, Begins(w, record)
    PROVE  Inv'
<1>i. TypeOK /\ proc[w].at = "idle" /\ proc[w].op = "none" /\ UNCHANGED <<Rows, now, faults, reviewed>>
  BY InvOf DEF Begins, Called, Shape
<1>1. /\ proc' \in [Workers -> Proc] /\ proc'[w] = record
      /\ \A v \in Workers : v # w => proc'[v] = proc[v]
  BY <1>i, Becomes DEF Begins
<1>2. overlapped' = overlapped \cup
            {k \in DOMAIN Kinds : record.op \in Kinds[k] /\ \E u \in Workers : proc[u].op \in Kinds[k]}
  BY DEF Begins, Called
<1>3. TypeOK'
  BY <1>i, <1>1, <1>2 DEF TypeOK, Rows
<1>4. \A v \in Workers : Shape(proc[v])' /\ Known(proc[v])'
  BY <1>i, <1>1 DEF Begins, Inv, HandlersInv, Shape, Known, Rows
<1>5. Alone("decisions")' /\ Alone("documents")'
  <2>1. ASSUME NEW k \in {"decisions", "documents"}, Alone(k)
        PROVE  Alone(k)'
    <3>1. k \notin overlapped' =>
              k \notin overlapped /\ (record.op \in Kinds[k] => \A u \in Workers : proc[u].op \notin Kinds[k])
      BY <1>2, KindsAre
    <3>2. "none" \notin Kinds[k]
      BY KindsAre DEF Decisions
    <3>. QED  BY <1>1, <2>1, <3>1, <3>2 DEF Alone
  <2>. QED  BY <2>1 DEF Inv, HandlersInv
<1>6. ASSUME NEW t \in Tipos
      PROVE  file'[t] + Cardinality(Storing(t)') <= MaxFiles
  <2>0. file'[t] = file[t] /\ file[t] \in 0..MaxFiles /\ MaxFiles \in Nat
    BY <1>i, DriverAssumption DEF Rows, TypeOK
  <2>1. file[t] + Cardinality(Storing(t)) <= MaxFiles
    BY DEF Inv, HandlersInv
  <2>2. CASE record.at = "store" /\ record.t = t
    <3>1. Storing(t)' = Storing(t) \cup {w} /\ w \notin Storing(t)
      BY <1>i, <1>1, <2>2 DEF Storing
    <3>2. Cardinality(Storing(t)') = Cardinality(Storing(t)) + 1
      BY <3>1, StoringIsFinite, FS_AddElement
    <3>3. file[t] + Cardinality(Storing(t)) < MaxFiles
      BY <2>2 DEF Begins, FilesLeft, Storing
    <3>. QED  BY <2>0, <3>2, <3>3, StoringIsFinite
  <2>3. CASE ~(record.at = "store" /\ record.t = t)
    <3>1. Storing(t)' = Storing(t)
      BY <1>i, <1>1, <2>3 DEF Storing
    <3>. QED  BY <2>0, <2>1, <3>1
  <2>. QED  BY <2>2, <2>3
<1>7. \A k : k \notin overlapped' => k \notin overlapped
  BY <1>2
<1>8. DecisionsInv'
  <2>1. \A v \in Workers : Decides(proc[v]) => Decides(proc[v])'
    <3>1. \A v \in Workers : proc'[v] = proc[v] \/ proc'[v] = record
      BY <1>1
    <3>2. driver' = driver /\ now' = now
      BY <1>i DEF Rows
    <3>3. Decides(record)
      BY DEF Begins
    <3>. QED  BY <3>1, <3>2, <3>3 DEF Decides
  <2>2. (\A v \in Workers : proc'[v].at # "alias") => \A v \in Workers : proc[v].at # "alias"
    BY <1>i, <1>1
  <2>. QED  BY <1>i, <1>7, <2>1, <2>2 DEF Inv, DecisionsInv, Rows
<1>9. DocumentsInv'
  <2>1. \A v \in Workers : Files(proc[v]) => Files(proc[v])'
    <3>1. \A v \in Workers : proc'[v] = proc[v] \/ proc'[v] = record
      BY <1>1
    <3>2. driver' = driver /\ document' = document /\ file' = file
      BY <1>i DEF Rows
    <3>3. Files(record)
      BY DEF Begins
    <3>. QED  BY <3>1, <3>2, <3>3 DEF Files
  <2>2. \A t \in Tipos, v \in Workers : Uploaded(v, t) => Uploaded(v, t)'
    BY <1>i, <1>1 DEF Uploaded
  <2>. QED  BY <1>i, <1>7, <2>1, <2>2 DEF Inv, DocumentsInv, Rows
<1>. QED  BY <1>3, <1>4, <1>5, <1>6, <1>8, <1>9 DEF Inv, HandlersInv

LEMMA StoringShrinks ==
    ASSUME NEW w \in Workers, proc'[w].at # "store",
           \A v \in Workers : v # w => proc'[v] = proc[v], NEW t \in Tipos
    PROVE  /\ Storing(t)' = Storing(t) \ {w}
           /\ Cardinality(Storing(t)') =
                Cardinality(Storing(t)) - (IF w \in Storing(t) THEN 1 ELSE 0)
<1>1. Storing(t)' = Storing(t) \ {w}
  BY DEF Storing
<1>2. Cardinality(Storing(t) \ {w}) =
          IF w \in Storing(t) THEN Cardinality(Storing(t)) - 1 ELSE Cardinality(Storing(t))
  BY StoringIsFinite, FS_RemoveElement
<1>. QED  BY <1>1, <1>2, StoringIsFinite

LEMMA ContinueKeeps ==
    ASSUME Inv, NEW w \in Workers, Moves(w)
    PROVE  Inv'
<1>1. /\ proc' \in [Workers -> Proc] /\ \A v \in Workers : v # w => proc'[v] = proc[v]
      /\ proc'[w].at # "store" /\ proc'[w].op \in {"none", proc[w].op}
      /\ UNCHANGED <<now, faults, overlapped>> /\ RowsType'
  BY DEF Moves
<1>2. ASSUME NEW t \in Tipos
      PROVE  file'[t] \in 0..MaxFiles /\ file'[t] + Cardinality(Storing(t)') <= MaxFiles
  <2>1. /\ file[t] + Cardinality(Storing(t)) <= MaxFiles /\ file[t] \in 0..MaxFiles
        /\ MaxFiles \in Nat /\ file \in [Tipos -> 0..MaxFiles]
    BY DriverAssumption DEF Inv, HandlersInv, TypeOK
  <2>2. Cardinality(Storing(t)') =
            Cardinality(Storing(t)) - (IF w \in Storing(t) THEN 1 ELSE 0)
    BY <1>1, StoringShrinks
  <2>3. file'[t] = file[t] + (IF w \in Storing(t) THEN 1 ELSE 0)
    BY <2>1 DEF Moves, Storing
  <2>4. w \in Storing(t) => Cardinality(Storing(t)) # 0
    BY StoringIsFinite, FS_EmptySet
  <2>. QED  BY <2>1, <2>2, <2>3, <2>4, StoringIsFinite
<1>3. TypeOK'
  <2>1. file' \in [Tipos -> 0..MaxFiles]
    <3>1. file' = IF proc[w].at = "store" THEN [file EXCEPT ![proc[w].t] = @ + 1] ELSE file
      BY DEF Moves
    <3>. QED  BY <1>2, <3>1 DEF Inv, TypeOK
  <2>. QED  BY <1>1, <2>1 DEF Inv, TypeOK, RowsType, Documents
<1>4. \A v \in Workers : Shape(proc[v])' /\ Known(proc[v])'
  <2>1. Shape(proc[w])' /\ Known(proc[w])'
    BY DEF Moves
  <2>2. ASSUME NEW v \in Workers, v # w
        PROVE  Shape(proc[v])' /\ Known(proc[v])'
    <3>1. Shape(proc[v]) /\ Known(proc[v]) /\ proc'[v] = proc[v] /\ proc[v].v \in Vehicles
      BY <1>1, <2>2 DEF Inv, HandlersInv, TypeOK, Proc
    <3>2. vehicle[proc[v].v] # Unknown => vehicle'[proc[v].v] # Unknown
      BY <3>1 DEF Moves
    <3>. QED  BY <3>1, <3>2 DEF Shape, Known
  <2>. QED  BY <2>1, <2>2
<1>5. Alone("decisions")' /\ Alone("documents")'
  <2>1. ASSUME NEW k \in {"decisions", "documents"}, Alone(k)
        PROVE  Alone(k)'
    <3>1. "none" \notin Kinds[k]
      BY KindsAre DEF Decisions
    <3>. QED  BY <1>1, <2>1, <3>1 DEF Alone
  <2>. QED  BY <2>1 DEF Inv, HandlersInv
<1>6. DecisionsInv'
  <2> SUFFICES ASSUME "decisions" \notin overlapped PROVE DecisionsInv'
    BY <1>1 DEF DecisionsInv
  <2>1. \A v \in Workers : proc[v].op \in Decisions /\ proc[w].op \in Decisions => v = w
    BY KindsAre DEF Inv, HandlersInv, Alone
  <2>2. ASSUME NEW v \in Workers, v # w
        PROVE  Decides(proc[v])'
    <3>1. Decides(proc[v]) /\ Shape(proc[v]) /\ proc'[v] = proc[v] /\ now' = now
      BY <1>1, <2>2 DEF Inv, HandlersInv, DecisionsInv
    <3>2. driver' = driver \/ proc[v].op \notin Decisions
      BY <2>1, <2>2 DEF Moves
    <3>3. CASE driver' = driver
      BY <3>1, <3>3 DEF Decides
    <3>4. CASE proc[v].op \notin Decisions
      BY <3>1, <3>4 DEF Decides, Decisions, Shape
    <3>. QED  BY <3>2, <3>3, <3>4
  <2>3. Decides(proc[w])'
    BY DEF Moves, DecisionMoves
  <2>4. ASSUME faults = 0, \A v \in Workers : proc'[v].at # "alias"
        PROVE  alias' = "Conductor" <=> Approved'
    <3>1. CASE alias' = "Conductor" <=> Approved'
      BY <3>1
    <3>2. CASE proc[w].at # "alias" /\ alias' = alias /\ (Approved' <=> Approved)
      <4>1. \A v \in Workers : proc[v].at # "alias"
        BY <1>1, <2>4, <3>2
      <4>. QED  BY <2>4, <3>2, <4>1 DEF Inv, DecisionsInv, Approved
    <3>. QED  BY <2>4, <3>1, <3>2 DEF Moves, DecisionMoves
  <2>. QED  BY <1>1, <2>2, <2>3, <2>4 DEF DecisionsInv, Approved
<1>7. DocumentsInv'
  <2> SUFFICES ASSUME "documents" \notin overlapped PROVE DocumentsInv'
    BY <1>1 DEF DocumentsInv
  <2>1. \A v \in Workers : proc[v].op \in DocumentOps /\ proc[w].op \in DocumentOps => v = w
    BY KindsAre DEF Inv, HandlersInv, Alone, DocumentOps
  <2>2. ASSUME NEW v \in Workers, v # w
        PROVE  Files(proc[v])'
    <3>1. Files(proc[v]) /\ Shape(proc[v]) /\ proc'[v] = proc[v]
      BY <1>1, <2>2 DEF Inv, HandlersInv, DocumentsInv
    <3>2. \/ proc[v].op \notin DocumentOps
          \/ document' = document /\ file' = file /\ (Approved' => Approved)
      BY <2>1, <2>2 DEF Moves
    <3>3. CASE proc[v].op \notin DocumentOps
      BY <3>1, <3>3 DEF Files, DocumentOps, Shape
    <3>4. CASE document' = document /\ file' = file /\ (Approved' => Approved)
      BY <3>1, <3>4 DEF Files, Approved
    <3>. QED  BY <3>2, <3>3, <3>4
  <2>3. Files(proc[w])'
    BY DEF Moves, DocumentsMove
  <2>4. ASSUME faults = 0, NEW t \in Tipos
        PROVE  Reviewed(t)' \/ \E v \in Workers : Uploaded(v, t)'
    <3>1. CASE Reviewed(t)' \/ Uploaded(w, t)'
      BY <3>1
    <3>2. CASE /\ ~Uploaded(w, t) /\ (Approved' => Approved)
               /\ document'[t] = document[t] /\ file'[t] = file[t] /\ reviewed'[t] = reviewed[t]
      <4>1. Reviewed(t) \/ \E v \in Workers : Uploaded(v, t)
        BY <2>4 DEF Inv, DocumentsInv, Reviewed, Approved
      <4>2. ASSUME NEW v \in Workers, Uploaded(v, t)
            PROVE  Uploaded(v, t)'
        BY <1>1, <3>2, <4>2 DEF Uploaded
      <4>3. Reviewed(t) => Reviewed(t)'
        BY <3>2 DEF Reviewed
      <4>. QED  BY <4>1, <4>2, <4>3
    <3>. QED  BY <2>4, <3>1, <3>2 DEF Moves, DocumentsMove
  <2>. QED  BY <1>1, <2>2, <2>3, <2>4 DEF DocumentsInv, Reviewed, Approved
<1>. QED  BY <1>2, <1>3, <1>4, <1>5, <1>6, <1>7 DEF Inv, HandlersInv

LEMMA FailKeeps ==
    ASSUME Inv, NEW w \in Workers, Fail(w)
    PROVE  Inv'
<1>1. /\ Done(w) /\ UNCHANGED <<Rows, now, reviewed, overlapped>>
      /\ faults < MaxFaults /\ faults' = faults + 1 /\ proc[w].at # "idle"
  BY DEF Fail
<1>2. /\ proc' \in [Workers -> Proc] /\ \A v \in Workers : v # w => proc'[v] = proc[v]
      /\ Shape(proc[w])' /\ Decides(proc[w])' /\ Files(proc[w])'
      /\ proc'[w].at = "idle" /\ proc'[w].op = "none"
  BY <1>1, DoneMoves DEF Inv
<1>3. faults' # 0 /\ TypeOK'
  <2>1. faults \in Nat /\ MaxFaults \in Nat /\ faults' \in 0..MaxFaults /\ faults' # 0
    BY <1>1, DriverAssumption DEF Inv, TypeOK
  <2>. QED  BY <1>1, <1>2, <2>1 DEF Inv, TypeOK, Rows
<1>4. ASSUME NEW v \in Workers
      PROVE  /\ Shape(proc[v])' /\ Known(proc[v])'
             /\ Decides(proc[v]) => Decides(proc[v])'
             /\ Files(proc[v]) => Files(proc[v])'
  <2>1. driver' = driver /\ now' = now /\ document' = document /\ file' = file /\ vehicle' = vehicle
    BY <1>1 DEF Rows
  <2>2. CASE v = w
    BY <1>2, <2>2 DEF Known
  <2>3. CASE v # w
    <3>1. proc'[v] = proc[v] /\ Shape(proc[v]) /\ Known(proc[v])
      BY <1>2, <2>3 DEF Inv, HandlersInv
    <3>. QED  BY <2>1, <3>1 DEF Shape, Known, Decides, Files
  <2>. QED  BY <2>2, <2>3
<1>5. Alone("decisions")' /\ Alone("documents")'
  <2>1. ASSUME NEW k \in {"decisions", "documents"}, Alone(k)
        PROVE  Alone(k)'
    <3>1. "none" \notin Kinds[k]
      BY KindsAre DEF Decisions
    <3>. QED  BY <1>1, <1>2, <2>1, <3>1 DEF Alone
  <2>. QED  BY <2>1 DEF Inv, HandlersInv
<1>6. ASSUME NEW t \in Tipos
      PROVE  file'[t] + Cardinality(Storing(t)') <= MaxFiles
  <2>1. file[t] + Cardinality(Storing(t)) <= MaxFiles /\ file[t] \in Nat /\ MaxFiles \in Nat
    BY DriverAssumption DEF Inv, HandlersInv, TypeOK
  <2>2. Cardinality(Storing(t)') =
            Cardinality(Storing(t)) - (IF w \in Storing(t) THEN 1 ELSE 0)
    BY <1>2, StoringShrinks
  <2>. QED  BY <1>1, <2>1, <2>2, StoringIsFinite DEF Rows
<1>. QED  BY <1>1, <1>3, <1>4, <1>5, <1>6 DEF Inv, HandlersInv, DecisionsInv, DocumentsInv

LEMMA StepInv == Inv /\ [Next]_vars => Inv'
<1> SUFFICES ASSUME Inv, [Next]_vars PROVE Inv'
  OBVIOUS
<1>1. CASE NextDay
  <2>1. /\ now < MaxTime /\ now' = now + 1
        /\ UNCHANGED <<driver, rol, alias, document, file, vehicle, proc, faults, reviewed, overlapped>>
    BY <1>1 DEF NextDay, Rows
  <2>2. TypeOK'
    BY <2>1, DriverAssumption DEF Inv, TypeOK
  <2>3. HandlersInv' /\ DocumentsInv'
    BY <2>1 DEF Inv, HandlersInv, DocumentsInv, Shape, Known, Alone, Storing, Files, Uploaded
  <2>4. \A w \in Workers : Decides(proc[w]) => Decides(proc[w])'
    <3>1. /\ now \in Int /\ driver.fechaRechazo \in Int /\ Cooldown \in Int
      BY DriverAssumption DEF Inv, TypeOK, Driver
    <3>2. now - driver.fechaRechazo >= Cooldown => now' - driver'.fechaRechazo >= Cooldown
      BY <2>1, <3>1
    <3>. QED  BY <2>1, <3>2 DEF Decides
  <2>. QED  BY <2>1, <2>2, <2>3, <2>4 DEF Inv, DecisionsInv
<1>2. CASE UNCHANGED vars
  BY <1>2 DEF vars, Inv, TypeOK, HandlersInv, DecisionsInv, DocumentsInv, Shape, Known, Alone,
              Storing, Decides, Files, Uploaded
<1>3. ASSUME NEW w \in Workers, Calls(w) PROVE Inv'
  <2>1. PICK record : Begins(w, record)
    BY <1>3, CallsBegin DEF Inv
  <2>. QED  BY <2>1, CallsKeep
<1>. QED  BY <1>1, <1>2, <1>3, ContinueMoves, ContinueKeeps, FailKeeps DEF Next

THEOREM ApplicationsInvariant == Spec => []Inv
  BY InitInv, StepInv, PTL DEF Spec

-----------------------------------------------------------------------------

(* The columns, the files and the copies keep their domains. *)
THEOREM TypeCorrect == Spec => []TypeOK
<1>1. Inv => TypeOK
  BY DEF Inv
<1>. QED  BY <1>1, ApplicationsInvariant, PTL

(* Documents handled one at a time, no upload lost: what is stored for an    *)
(* approved driver is what an administrator looked at and approved, whatever *)
(* happens meanwhile to his application, his vehicles and his alias.         *)
THEOREM ApprovedAsReviewed == Spec => []ApprovalFollowsReview
<1>1. Inv => ApprovalFollowsReview
  <2> SUFFICES ASSUME Inv, driver.estado = "APROBADO", "documents" \notin overlapped, faults = 0,
                      NEW t \in Tipos, document[t] # "none"
               PROVE  reviewed[t] = file[t]
    BY DEF ApprovalFollowsReview
  <2>1. \A w \in Workers : ~Uploaded(w, t)
    BY DEF Inv, DocumentsInv, Files, Uploaded
  <2>. QED  BY <2>1 DEF Inv, DocumentsInv
<1>. QED  BY <1>1, ApplicationsInvariant, PTL

(* One decision at a time, none lost: the alias is that of a driver exactly  *)
(* while he is approved, whatever his documents and vehicles go through.     *)
THEOREM AliasIsTrue == Spec => []AliasFollowsState
<1>1. Inv => AliasFollowsState
  <2> SUFFICES ASSUME Inv, "decisions" \notin overlapped, faults = 0,
                      \A w \in Workers : proc[w].op \notin Decisions
               PROVE  alias = "Conductor" <=> driver.estado = "APROBADO"
    BY DEF AliasFollowsState
  <2>1. \A w \in Workers : proc[w].at # "alias"
    BY DEF Inv, HandlersInv, Shape, Decisions
  <2>. QED  BY <2>1 DEF Inv, DecisionsInv
<1>. QED  BY <1>1, ApplicationsInvariant, PTL

(* One decision at a time, wherever handlers are lost: an application goes   *)
(* through its states in the order of the reviews, a rejected applicant      *)
(* waits for the cooldown, and a suspension is for good.                     *)
THEOREM ReviewsInOrder == Spec => ReviewLifecycle
<1> DEFINE InOrder ==
        LET from == driver.estado
            to == driver'.estado
        IN  from # to /\ "decisions" \notin overlapped =>
            \/ from = "none" /\ to = "PENDIENTE"
            \/ from = "PENDIENTE" /\ to \in {"APROBADO", "RECHAZADO", "SUSPENDIDO"}
            \/ from = "APROBADO" /\ to \in {"PENDIENTE", "SUSPENDIDO"}
            \/ from = "RECHAZADO" /\ to = "PENDIENTE" /\ now - driver.fechaRechazo >= Cooldown
<1>1. ASSUME Inv, NEW w \in Workers, FlushDriver(w) \/ CommitApproval(w)
      PROVE  InOrder
  <2> DEFINE p == proc[w]
  <2>1. /\ p.copy \in Driver /\ driver \in Driver /\ Shape(p)
        /\ "decisions" \notin overlapped => Decides(p)
    BY <1>1, InvOf DEF Proc, RowsType
  <2>2. /\ driver' = Updated(p.copy, driver, p.cols)
        /\ (p.at = "flush" \/ p.at = "commit")
    BY <1>1 DEF FlushDriver, CommitApproval
  <2>3. driver'.estado = driver.estado \/ driver'.estado = p.copy.estado
    BY <2>1, <2>2, UpdatedDriver
  <2> HIDE DEF p
  <2>4. CASE p.at = "commit"
    BY <2>1, <2>3, <2>4 DEF Decides
  <2>5. CASE p.at = "flush"
    <3>1. p.op \in {"applyAsDriver", "updateVehicle", "rejectDriver", "suspendDriver"}
      BY <2>1, <2>5 DEF Shape
    <3>. QED  BY <2>1, <2>3, <2>5, <3>1 DEF Decides, Active
  <2>. QED  BY <2>2, <2>4, <2>5
<1>2. ASSUME Inv, NEW w \in Workers, InsertDriver(w)
      PROVE  InOrder
  BY <1>2, InvOf DEF InsertDriver, RowsType, Driver
<1>3. ASSUME Inv, Next
      PROVE  InOrder
  <2>1. ASSUME NEW w \in Workers, Calls(w) \/ Fail(w)
        PROVE  driver' = driver
    BY <1>3, <2>1, CallsBegin DEF Begins, Rows, Fail, Inv
  <2>2. ASSUME NEW w \in Workers, Continue(w), ~InsertDriver(w), ~FlushDriver(w), ~CommitApproval(w)
        PROVE  driver' = driver
    BY <2>2 DEF Continue, SaveDriver, UpdateAlias, StoreFile, FindDocument, InsertDocument,
                SaveDocument, FlushDocument, InsertVehicle, SaveVehicle, FlushVehicle,
                CascadeApproval, Rows
  <2>3. NextDay => driver' = driver
    BY DEF NextDay, Rows
  <2>. QED  BY <1>1, <1>2, <1>3, <2>1, <2>2, <2>3 DEF Next
<1>4. Inv /\ [Next]_vars => [InOrder]_vars
  BY <1>3
<1>. QED  BY <1>4, ApplicationsInvariant, PTL DEF Spec, ReviewLifecycle
=============================================================================
