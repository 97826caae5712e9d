SPECIFICATION Spec
CONSTANTS
  StreamKeys = {1, 2, 3, 4}
  CurveKeys = {11, 12}
  PageSize = 2
  CurvePage = 1
  SourceGroups <- MCSourceGroups
  GroupAtSource <- MCGroupAtSource
  GroupInPath <- MCGroupInPath
  MaxChanges = 2
INVARIANTS
  TypeOK
  ListedUnlessRemoved
  FindingsTrue
