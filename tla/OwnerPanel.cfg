SPECIFICATION FairSpec
CONSTANTS
  installer = installer
  anna = anna
  bruno = bruno
  User = {installer, anna}
  Admin = {installer}
  MaxOwners = 1
INVARIANTS StrangerRefused
PROPERTIES OwnerAdmitted RowCorrected
