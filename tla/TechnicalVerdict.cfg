SPECIFICATION VerdictSpec
CONSTANTS
  s1 = s1
  bore = bore
  cert = cert
  heat = heat
  f1 = f1
  f2 = f2
  Suppliers = {s1}
  Requirements = {bore, cert, heat}
  Attachments = {f1, f2}
  Req <- MCReq
  Unit <- MCUnit
  Documents <- MCDocuments
  ModelFinds <- MCModelFinds
  MaxQuotations = 3
  MaxAccepted = 2
INVARIANTS QualifiedIsProven
PROPERTIES VerdictStands
CHECK_DEADLOCK FALSE
