SPECIFICATION Spec
CHECK_DEADLOCK FALSE
CONSTANTS
  h1 = h1
  h2 = h2
  h3 = h3
  installer = installer
  anna = anna
  newUser1 = newUser1
  newUser2 = newUser2
  pAnna = pAnna
  pNew1 = pNew1
  pNew2 = pNew2
  lInstaller = lInstaller
  lAnna = lAnna
  lNew = lNew
  Handler = {h1, h2}
  User = {installer, anna, newUser1}
  Person = {pAnna, pNew1}
  Login = {lInstaller, lAnna, lNew}
  Admin = {installer}
  ReadFails = TRUE
  Portal <- Commands
  Spelt <- SpeltLike
  Initial <- Given
PROPERTIES AdminNeverTouched
